---- MODULE Spec2Model ----
(***************************************************************************)
(* Model of the SENTINEL backend (Backend/app): the run orchestrator       *)
(* SentinelService.start_run / _execute_run, the stage contract            *)
(* AgentBase.run, and the persistence writes they issue.                   *)
(*                                                                         *)
(* Units: scores and severities are in thousandths (7.0 -> 7000), plain    *)
(* confidences in thousandths (0.6 -> 600), confidence_pct in hundredths   *)
(* of a percent (60.0 -> 6000), case features in hundredths (0.55 -> 55),  *)
(* fusion weights in units of 1e-7 (0.4 -> 4000000) and the decision        *)
(* threshold in thousandths.                                               *)
(***************************************************************************)
EXTENDS Integers, Sequences, FiniteSets, TLC

VARIABLES
    useBedrock,      \* Settings.use_bedrock: AgentBase._bedrock is not None
    corpusLen,       \* len(SentinelService._synthetic_cases)
    strategyMemory,  \* strategy_memory table as found at start-up, newest first
    runStatus,       \* SentinelService._run_status: run_id -> RunStatusResponse
    task,            \* SentinelService._run_tasks: run_id -> state of the _execute_run task
    log,             \* per run: every write it issued, in program order
    call,            \* one AgentBase.run call followed step by step (SpecStage)
    fusion,          \* a FusionState under repeated updates (SpecFusion)
    retriever,       \* the Retriever, the tables it reads and its last result (SpecRetrieve)
    scoring,         \* one case of _execute_run with what each stage is given (SpecCase)
    reranking,       \* one Reranker.rerank call with its arguments and result (SpecRerank)
    embedding,       \* EmbeddingService.embed_text called twice on one text (SpecEmbed)
    dispatching,     \* one DispatchManager.dispatch_if_approved call (SpecDispatch)
    desk,            \* the stored tables and the last review request served (SpecDesk)
    notebook,        \* the strategy hints of one run over its cases (SpecHints)
    ingesting,       \* calls of IngestAgent.local_fallback on one payload (SpecIngest)
    scanning,        \* one retrieve call over an index of many items (SpecScan)
    guarding         \* two runs over the same cases at the guardrail (SpecGuard)

\* state of the orchestrator
runVars == <<useBedrock, corpusLen, strategyMemory, runStatus, task, log>>

\* state of the function-level specifications; the orchestrator leaves it alone
unitVars == <<call, fusion, retriever, scoring, reranking, embedding, dispatching, desk, notebook, ingesting, scanning, guarding>>

\* what a stage run leaves alone, and what an update of the fusion state does
restOfCall == <<runVars, fusion, retriever, scoring, reranking, embedding, dispatching, desk, notebook, ingesting, scanning, guarding>>
restOfFusion == <<runVars, call, retriever, scoring, reranking, embedding, dispatching, desk, notebook, ingesting, scanning, guarding>>
restOfRetriever == <<runVars, call, fusion, scoring, reranking, embedding, dispatching, desk, notebook, ingesting, scanning, guarding>>
restOfScoring == <<runVars, call, fusion, retriever, reranking, embedding, dispatching, desk, notebook, ingesting, scanning, guarding>>
restOfReranking == <<runVars, call, fusion, retriever, scoring, embedding, dispatching, desk, notebook, ingesting, scanning, guarding>>
restOfEmbedding == <<runVars, call, fusion, retriever, scoring, reranking, dispatching, desk, notebook, ingesting, scanning, guarding>>
restOfDispatching == <<runVars, call, fusion, retriever, scoring, reranking, embedding, desk, notebook, ingesting, scanning, guarding>>
restOfDesk == <<runVars, call, fusion, retriever, scoring, reranking, embedding, dispatching, notebook, ingesting, scanning, guarding>>
restOfNotebook == <<runVars, call, fusion, retriever, scoring, reranking, embedding, dispatching, desk, ingesting, scanning, guarding>>
restOfIngesting == <<runVars, call, fusion, retriever, scoring, reranking, embedding, dispatching, desk, notebook, scanning, guarding>>
restOfScanning == <<runVars, call, fusion, retriever, scoring, reranking, embedding, dispatching, desk, notebook, ingesting, guarding>>
restOfGuarding == <<runVars, call, fusion, retriever, scoring, reranking, embedding, dispatching, desk, notebook, ingesting, scanning>>

vars == <<useBedrock, corpusLen, strategyMemory, runStatus, task, log, call, fusion, retriever, scoring, reranking, embedding, dispatching, desk, notebook, ingesting, scanning, guarding>>

(***************************************************************************)
(* Bounds of the model.                                                    *)
(***************************************************************************)
MaxCorpus == 2

\* One run.  A run's task owns its locals (fusion_state, strategy_hints,
\* metrics_inputs); runs meet only in the persistence layer.
RunIds == {1}

Min(a, b) == IF a <= b THEN a ELSE b
Max(a, b) == IF a >= b THEN a ELSE b
clamp(value, low, high) == Max(low, Min(high, value))
\* round(x / d) to the nearest integer, for x >= 0
RoundDiv(x, d) == (2 * x + d) \div (2 * d)

(***************************************************************************)
(* The corpus: RawCaseInput records, already validated when loaded.        *)
(***************************************************************************)
CaseAt(i) ==
    [ case_id            |-> i,
      date               |-> i,
      mutation_novelty   |-> (40 * i) % 101,
      lineage_deviation  |-> (50 * i) % 101,
      recombination_flag |-> (i % 2 = 0),
      n_source_types     |-> 1 + (i % 4),
      n_news_snippets    |-> 2,
      anomaly_score      |-> (55 * i) % 101,
      reliability_hint   |-> (70 * i) % 101,
      travel_hub_score   |-> 60,
      population_density_score |-> 75,
      border_connectivity |-> 40,
      true_outbreak      |-> (i % 2 = 1),
      true_severity      |-> 8000 ]

\* the slice is not capped by the length of the corpus
SelectedLenUncapped(num_cases, len) == num_cases

\* selected = self._synthetic_cases[:num_cases]
SelectedLen(num_cases, len) ==
    IF num_cases >= 0 THEN Min(num_cases, len) ELSE Max(len + num_cases, 0)

\* StartRunRequest.num_cases: Field(ge=1, le=500); the model asks for at most
\* one case more than the corpus can hold
NumCasesInputs == 1..(MaxCorpus + 1)

(***************************************************************************)
(* Output schemas (app/models.py).  StrictModel forbids extra fields.      *)
(***************************************************************************)
MetaOutputFields ==
    {"fused_score", "severity", "confidence_pct", "rationale", "contributions",
     "recommended_action", "strategy_notes", "updated_prompts"}

\* keys of the dict MetaAgent.local_fallback returns
MetaFallbackKeys ==
    {"fused_score", "severity", "confidence_pct", "rationale", "contributions",
     "recommended_action", "suggestion", "strategy_notes", "updated_prompts"}

\* model_validate of a dict with the given keys against a StrictModel
SchemaAccepts(fields, keys) == keys = fields

(***************************************************************************)
(* FusionState and its persistence.                                        *)
(***************************************************************************)
\* 1.0 as a fusion weight
Unit == 10000000

default_fusion_state ==
    [w_genomics |-> 4000000, w_epi |-> 4000000, w_geo |-> 2000000, threshold |-> 700]

\* FusionState validation: weights gt 0, threshold in [0.4, 0.85]
FusionStateValid(fs) ==
    /\ fs.w_genomics > 0 /\ fs.w_epi > 0 /\ fs.w_geo > 0
    /\ fs.threshold >= 400 /\ fs.threshold <= 850

\* A persisted strategy_memory row: weights_json parsed by _loads_json is
\* a dict ("ok") or degrades to {} ("bad"); note = 0 is an empty note.
MemoryRows ==
    { [weights_ok |-> TRUE,  w_genomics |-> 5000000, w_epi |-> 3000000, w_geo |-> 2000000, threshold |-> 720, note |-> 7],
      [weights_ok |-> FALSE, w_genomics |-> 0,       w_epi |-> 0,       w_geo |-> 0,       threshold |-> 650, note |-> 0],
      [weights_ok |-> TRUE,  w_genomics |-> 5000000, w_epi |-> 3000000, w_geo |-> 2000000, threshold |-> 900, note |-> 8] }

fusion_state_from_memory_row(row) ==
    LET cand == [ w_genomics |-> IF row.weights_ok THEN row.w_genomics ELSE 4000000,
                  w_epi      |-> IF row.weights_ok THEN row.w_epi ELSE 4000000,
                  w_geo      |-> IF row.weights_ok THEN row.w_geo ELSE 2000000,
                  threshold  |-> row.threshold ]
    IN IF FusionStateValid(cand) THEN cand ELSE default_fusion_state

\* the persisted row is ignored
LoadDefaultOnly(mem) == default_fusion_state

_load_latest_fusion_state(mem) ==
    IF mem = <<>> THEN default_fusion_state
    ELSE fusion_state_from_memory_row(mem[1])

RECURSIVE NonEmptyNotes(_)
NonEmptyNotes(rows) ==
    IF rows = <<>> THEN <<>>
    ELSE IF rows[1].note # 0 THEN <<rows[1].note>> \o NonEmptyNotes(Tail(rows))
         ELSE NonEmptyNotes(Tail(rows))

_load_recent_strategy_notes(mem) ==
    NonEmptyNotes(SubSeq(mem, 1, Min(5, Len(mem))))

(***************************************************************************)
(* improve/update.py                                                       *)
(***************************************************************************)
Abs(x) == IF x >= 0 THEN x ELSE 0 - x

\* weight (units of 1e-7) times score (thousandths), in units of 1e-7 of a
\* score point; the product is taken in two halves to stay within 32 bits
WeightTimes(w, s) == (w \div 10000) * s * 10 + RoundDiv((w % 10000) * s, 1000)

\* learning_rate * error * direction as a weight, with learning_rate = 0.08,
\* error = e7 / 1e8 and direction = d7 / 1e8 (e7, d7: score differences in
\* units of 1e-7)
Step(e7, d7) ==
    LET e5 == RoundDiv(Abs(e7), 1000)
        d5 == RoundDiv(Abs(d7), 1000)
        a == 8 * (e5 \div 1000) * d5
        m == (a \div 100) + RoundDiv((a % 100) * 1000 + 8 * (e5 % 1000) * d5, 100000)
    IN IF (e7 < 0) # (d7 < 0) THEN 0 - m ELSE m

\* lines 35-38: the moved weight, clamped to [0.05, 0.9]
NextWeight(weight, e7, d7) == clamp(weight + Step(e7, d7), Unit \div 20, 9 * (Unit \div 10))

\* r / total continued by the given number of decimal digits after q
RECURSIVE LongDiv(_, _, _, _)
LongDiv(r, total, digits, q) ==
    IF digits = 0 THEN q
    ELSE LongDiv((r * 10) % total, total, digits - 1, q * 10 + ((r * 10) \div total))

\* the weights are handed on as they are after clamping
NotNormalized(ug, ue, uo) == <<ug, ue, uo>>

\* lines 40-41: total = sum(updated) or 1.0; every weight divided by total
Normalized(ug, ue, uo) ==
    LET sum == ug + ue + uo
        total == IF sum = 0 THEN Unit ELSE sum
        over(u) == LongDiv(u % total, total, 7, u \div total)
    IN <<over(ug), over(ue), over(uo)>>

\* the threshold moves but is not clamped
NextThresholdUnclamped(threshold, predicted_positive, ground_truth_true, true_severity) ==
    LET t1 == IF predicted_positive /\ ~ground_truth_true THEN threshold + 10 ELSE threshold
    IN IF ~predicted_positive /\ ground_truth_true /\ true_severity >= 7000 THEN t1 - 10 ELSE t1

\* lines 44-49: + 0.01 on a false positive, - 0.01 on a missed severe
\* outbreak, clamped to [0.4, 0.85]
NextThreshold(threshold, predicted_positive, ground_truth_true, true_severity) ==
    LET t1 == IF predicted_positive /\ ~ground_truth_true THEN threshold + 10 ELSE threshold
        t2 == IF ~predicted_positive /\ ground_truth_true /\ true_severity >= 7000
              THEN t1 - 10 ELSE t1
    IN Min(850, Max(400, t2))

\* component_scores = {genomics: gs, epi: es, geo: os}
update_fusion_state(current, gs, es, os, predicted_severity, predicted_confidence_pct, ground_truth_true, true_severity) ==
    LET weighted_pred == WeightTimes(current.w_genomics, gs) + WeightTimes(current.w_epi, es)
                         + WeightTimes(current.w_geo, os)
        e7 == true_severity * 10000 - weighted_pred
        next(weight, score) == NextWeight(weight, e7, score * 10000 - weighted_pred)
        normalized == Normalized(next(current.w_genomics, gs), next(current.w_epi, es),
                                 next(current.w_geo, os))
        predicted_positive ==
            predicted_severity >= current.threshold * 10 /\ predicted_confidence_pct >= 6000
    IN [ w_genomics |-> normalized[1],
         w_epi      |-> normalized[2],
         w_geo      |-> normalized[3],
         threshold  |-> NextThreshold(current.threshold, predicted_positive,
                                      ground_truth_true, true_severity) ]

\* the note is 10 * rule + dominant signal (1 genomics, 2 epi, 3 geo)
build_strategy_update(predicted_positive, ground_truth_true, gs, es, os) ==
    LET dominant_signal == IF gs >= es /\ gs >= os THEN 1 ELSE IF es >= os THEN 2 ELSE 3
        note == IF predicted_positive /\ ~ground_truth_true THEN 1
                ELSE IF ~predicted_positive /\ ground_truth_true THEN 2
                ELSE 3
    IN 10 * note + dominant_signal

(***************************************************************************)
(* Stage contract: AgentBase.run and the local fallbacks.                  *)
(***************************************************************************)
\* every source type is taken to be present
source_diversity_full(case) == 100
source_diversity(case) == clamp(25 * case.n_source_types, 0, 100)

IngestFallback(case) ==
    LET news_volume == clamp(20 * case.n_news_snippets, 0, 100)
        credibility == clamp(55 * case.reliability_hint + 25 * source_diversity(case)
                             + 20 * news_volume, 0, 10000)
        genomic_pressure == 50 * case.mutation_novelty + 35 * case.lineage_deviation
                            + (IF case.recombination_flag THEN 1500 ELSE 0)
        geo3 == case.travel_hub_score + case.population_density_score + case.border_connectivity
        risk_signal == 12 * genomic_pressure + 1050 * case.anomaly_score + 250 * geo3
    IN [ credibility_score |-> RoundDiv(credibility, 10),
         score |-> RoundDiv(clamp(risk_signal, 0, 300000), 30),
         confidence |-> RoundDiv(clamp(500000 + 45 * credibility, 0, 1000000), 1000) ]

GenomicsFallback(case, ingest_output) ==
    [ genomics_score |-> clamp(45 * case.mutation_novelty + 35 * case.lineage_deviation
                               + (IF case.recombination_flag THEN 2000 ELSE 0), 0, 10000),
      confidence |-> RoundDiv(clamp(5000 + 4 * ingest_output.credibility_score, 0, 10000), 10) ]

EpiFallback(case) ==
    LET signal_to_noise == RoundDiv(clamp(65 * case.reliability_hint
                                          + 35 * source_diversity(case), 0, 10000), 10)
    IN [ epi_score |-> clamp(60 * case.anomaly_score + 25 * case.reliability_hint
                             + 15 * source_diversity(case), 0, 10000),
         geo_score |-> clamp(40 * case.travel_hub_score + 35 * case.population_density_score
                             + 25 * case.border_connectivity, 0, 10000),
         confidence |-> RoundDiv(clamp(450000 + 450 * signal_to_noise, 0, 1000000), 1000) ]

MetaFallback(ingest, genomics, epi, fusion_state) ==
    LET fused == RoundDiv(clamp(WeightTimes(fusion_state.w_genomics, genomics.genomics_score)
                                + WeightTimes(fusion_state.w_epi, epi.epi_score)
                                + WeightTimes(fusion_state.w_geo, epi.geo_score),
                                0, 100000000), 10000)
        conf == 25 * ingest.confidence + 35 * genomics.confidence + 40 * epi.confidence
    IN [ fused_score |-> fused, severity |-> fused,
         confidence_pct |-> RoundDiv(clamp(conf, 0, 100000), 10) ]

\* what a configured scoring capability can answer with, per stage
CapabilityOutputs(stage) ==
    CASE stage = "ingest" -> {[credibility_score |-> 600, score |-> 5000, confidence |-> 700]}
      [] stage = "genomics" -> {[genomics_score |-> 8000, confidence |-> 800]}
      [] stage = "epi_osint" -> {[epi_score |-> 7000, geo_score |-> 6000, confidence |-> 700]}
      [] stage = "meta" -> {[fused_score |-> s, severity |-> s, confidence_pct |-> c] :
                              s \in {6999, 7000}, c \in {5999, 6000}}

\* How one stage run goes.  Without a capability the stage is "local".  With
\* one: "exhausted" (_invoke_with_retry re-raises after the last attempt),
\* "valid" (a JSON object that passes the schema), "invalid" (no JSON object
\* even after the repair round-trip, or one that fails the schema).
Replies(stage) ==
    IF ~useBedrock THEN {[kind |-> "local"]}
    ELSE {[kind |-> "exhausted"], [kind |-> "invalid"]}
         \cup {[kind |-> "valid", out |-> o] : o \in CapabilityOutputs(stage)}

\* AgentBase.run: the validated output, or the exception it raises
Run(reply, fallback, fallback_keys_ok) ==
    IF reply.kind = "exhausted" THEN [ok |-> FALSE, exc |-> "capability_error"]
    ELSE IF reply.kind = "valid" THEN [ok |-> TRUE, out |-> reply.out]
    ELSE IF fallback_keys_ok THEN [ok |-> TRUE, out |-> fallback]
    ELSE [ok |-> FALSE, exc |-> "validation_error"]

(***************************************************************************)
(* Records of the model.                                                   *)
(***************************************************************************)
NoStatus == [status |-> "none", processed |-> 0, total |-> 0, error |-> "none"]

RunStatusResponse(status, processed, total, error) ==
    [status |-> status, processed |-> processed, total |-> total, error |-> error]

\* one write: an insert into a table (kind = table name), an assignment to
\* _run_status (kind = "mem"), or a stage boundary (kind = "stage")
Ev(kind, case, tag, data) ==
    [kind |-> kind, case |-> case, tag |-> tag, data |-> data, err |-> "none"]

\* _insert_run_event: one row of the runs table
RunEvent(status, processed, total, error) ==
    [kind |-> "runs", case |-> 0, tag |-> status, data |-> <<processed, total>>, err |-> error]

\* an assignment to self._run_status[run_id]
MemWrite(status, processed, total, error) ==
    [kind |-> "mem", case |-> 0, tag |-> status, data |-> <<processed, total>>, err |-> error]

NoIngest == [credibility_score |-> 0, score |-> 0, confidence |-> 0]
NoGenomics == [genomics_score |-> 0, confidence |-> 0]
NoEpi == [epi_score |-> 0, geo_score |-> 0, confidence |-> 0]

\* pc: "none" no task; "created" task scheduled; "loop" at the head of the
\* for loop; "ingest" / "join" / "meta" suspended in the matching await;
\* "finish" past the loop; "except" in the except block; "done" returned;
\* "crashed" ended by an exception that escaped _execute_run.
\* genomics / epi_osint: state of the two children of asyncio.gather.
\* no stage run is being followed
NoCall == [pc |-> "none"]

\* no fusion state is being followed
NoFusion == [n |-> 0 - 1]

\* no Retriever is being followed
NoRetriever == [pc |-> "none"]

\* no case is being scored
NoScoring == [pc |-> "none"]

\* no rerank call is being followed
NoReranking == [pc |-> "none"]

\* no embed_text call is being followed
NoEmbedding == [pc |-> "none"]

\* no dispatch_if_approved call is being followed
NoDispatching == [pc |-> "none"]

\* the review desk (approvals, suggestion executions, case details) is not followed
NoDesk == [requests |-> 0 - 1]

\* no strategy-hint buffer is being followed
NoNotebook == [pc |-> "none"]

\* no IngestAgent.local_fallback call is being followed
NoIngesting == [pc |-> "none"]

\* no retrieval over a large index is being followed
NoScanning == [pc |-> "none"]

\* no pair of runs is being compared at the guardrail
NoGuarding == [n |-> 0 - 1]

IdleTask ==
    [ pc |-> "none", idx |-> 0, total |-> 0,
      fusion_state |-> default_fusion_state, strategy_hints |-> <<>>,
      metrics_inputs |-> <<>>, exc |-> "none", num_cases |-> 0,
      genomics |-> "idle", epi_osint |-> "idle", first_exc |-> "none",
      ingest_output |-> NoIngest, genomics_output |-> NoGenomics, epi_output |-> NoEpi ]

Init ==
    /\ useBedrock \in BOOLEAN
    /\ corpusLen \in 0..MaxCorpus
    /\ strategyMemory \in {<<>>} \cup {<<row>> : row \in MemoryRows}
    /\ runStatus = [r \in RunIds |-> NoStatus]
    /\ task = [r \in RunIds |-> IdleTask]
    /\ log = [r \in RunIds |-> <<>>]
    /\ call = NoCall
    /\ fusion = NoFusion
    /\ retriever = NoRetriever
    /\ scoring = NoScoring
    /\ reranking = NoReranking
    /\ embedding = NoEmbedding
    /\ dispatching = NoDispatching
    /\ desk = NoDesk
    /\ notebook = NoNotebook
    /\ ingesting = NoIngesting
    /\ scanning = NoScanning
    /\ guarding = NoGuarding

(***************************************************************************)
(* start_run                                                               *)
(***************************************************************************)
\* fail = 0: no insert raises; 1: the runs insert raises; 2: the audit insert
StartRun(r, num_cases, fail) ==
    LET n == SelectedLen(num_cases, corpusLen) IN
    /\ runStatus[r].status = "none"
    /\ runStatus' = [runStatus EXCEPT ![r] = RunStatusResponse("running", 0, n, "none")]
    /\ log' = [log EXCEPT ![r] =
                 <<MemWrite("running", 0, n, "none")>>
                 \o (IF fail # 1 THEN <<RunEvent("running", 0, n, "none")>> ELSE <<>>)
                 \o (IF fail = 0 THEN <<Ev("audit_logs", 0, "run_started", <<>>)>> ELSE <<>>)]
    /\ task' = [task EXCEPT ![r] =
                 IF fail = 0 THEN [IdleTask EXCEPT !.pc = "created", !.total = n,
                                                   !.num_cases = num_cases]
                 ELSE [IdleTask EXCEPT !.num_cases = num_cases]]
    /\ UNCHANGED <<useBedrock, corpusLen, strategyMemory>>

(***************************************************************************)
(* _execute_run                                                            *)
(***************************************************************************)
guardrail_severity_threshold == 7000
guardrail_confidence_threshold_pct == 6000

\* the exception is recorded but the loop goes on with the next case
RaiseAndContinue(t, e) == [t EXCEPT !.pc = "loop", !.idx = t.idx + 1, !.exc = e]

\* an exception raised inside the try block: control moves to the except block
Raise(t, e) == [t EXCEPT !.pc = "except", !.exc = e]

FusionTuple(fs) == <<fs.w_genomics, fs.w_epi, fs.w_geo, fs.threshold>>

\* the loaded state is kept on the service and shared by every run
BeginRunShared(r, fail) ==
    /\ task[r].pc = "created"
    /\ task' = [q \in DOMAIN task |->
                 IF q = r
                 THEN [task[q] EXCEPT !.pc = "loop", !.idx = 1,
                          !.fusion_state = _load_latest_fusion_state(strategyMemory),
                          !.strategy_hints = _load_recent_strategy_notes(strategyMemory)]
                 ELSE [task[q] EXCEPT
                          !.fusion_state = _load_latest_fusion_state(strategyMemory),
                          !.strategy_hints = _load_recent_strategy_notes(strategyMemory)]]
    /\ UNCHANGED <<useBedrock, corpusLen, strategyMemory, runStatus, log>>

\* lines 557-559: the two loads run before the try block.
\* fail = 1: the fusion-state query raises; 2: the strategy-notes query raises
BeginRun(r, fail) ==
    /\ task[r].pc = "created"
    /\ task' = [task EXCEPT ![r] =
                 IF fail # 0 THEN [@ EXCEPT !.pc = "crashed", !.exc = "persistence_error"]
                 ELSE [@ EXCEPT !.pc = "loop", !.idx = 1,
                                !.fusion_state = _load_latest_fusion_state(strategyMemory),
                                !.strategy_hints = _load_recent_strategy_notes(strategyMemory)]]
    /\ UNCHANGED <<useBedrock, corpusLen, strategyMemory, runStatus, log>>

\* the next iteration also starts while the current case still awaits its
\* meta stage
NextCaseOverlapping(r, fail) ==
    LET t == task[r]
        nxt == IF t.pc = "meta" THEN t.idx + 1 ELSE t.idx
    IN
    /\ t.pc \in {"loop", "meta"}
    /\ IF nxt > t.total
       THEN /\ fail = 0
            /\ task' = [task EXCEPT ![r].pc = "finish"]
            /\ UNCHANGED log
       ELSE IF fail = 1
       THEN /\ task' = [task EXCEPT ![r] = Raise(t, "persistence_error")]
            /\ UNCHANGED log
       ELSE /\ task' = [task EXCEPT ![r] = [t EXCEPT !.pc = "ingest", !.idx = nxt]]
            /\ log' = [log EXCEPT ![r] = @ \o
                         << Ev("audit_logs", nxt, "case_processing_started", <<nxt>>),
                            Ev("stage", nxt, "ingest_start", t.strategy_hints) >>]
    /\ UNCHANGED <<useBedrock, corpusLen, strategyMemory, runStatus>>

\* lines 562-577: next iteration of the loop, up to the call of the ingest stage.
\* fail = 1: the audit insert raises
NextCase(r, fail) ==
    LET t == task[r] IN
    /\ t.pc = "loop"
    /\ IF t.idx > t.total
       THEN /\ fail = 0
            /\ task' = [task EXCEPT ![r].pc = "finish"]
            /\ UNCHANGED log
       ELSE IF fail = 1
       THEN /\ task' = [task EXCEPT ![r] = Raise(t, "persistence_error")]
            /\ UNCHANGED log
       ELSE /\ task' = [task EXCEPT ![r].pc = "ingest"]
            /\ log' = [log EXCEPT ![r] = @ \o
                         << Ev("audit_logs", t.idx, "case_processing_started", <<t.idx>>),
                            Ev("stage", t.idx, "ingest_start", t.strategy_hints) >>]
    /\ UNCHANGED <<useBedrock, corpusLen, strategyMemory, runStatus>>

\* lines 573-622: the ingest stage returns or raises; then the case row, the
\* retrieval context, its audit event, and the two children of gather.
\* fail = 1: the cases insert raises; 2: a retrieval query raises; 3: the audit insert
IngestDone(r, reply, fail) ==
    LET t == task[r]
        res == Run(reply, IngestFallback(CaseAt(t.idx)), TRUE)
        done == <<Ev("stage", t.idx, "ingest_done", <<>>)>>
        row == <<Ev("cases", t.idx, "case", <<t.idx>>)>>
        rag == <<Ev("stage", t.idx, "retrieve_done", <<>>)>>
        aud == <<Ev("audit_logs", t.idx, "rag_context_built", <<>>)>>
    IN
    /\ t.pc = "ingest"
    /\ reply \in Replies("ingest")
    /\ IF ~res.ok
       THEN /\ fail = 0
            /\ task' = [task EXCEPT ![r] = Raise(t, res.exc)]
            /\ log' = [log EXCEPT ![r] = @ \o <<Ev("stage", t.idx, "ingest_raised", <<>>)>>]
       ELSE IF fail # 0
       THEN /\ task' = [task EXCEPT ![r] =
                          Raise([t EXCEPT !.ingest_output = res.out], "persistence_error")]
            /\ log' = [log EXCEPT ![r] = @ \o done
                         \o (IF fail >= 2 THEN row ELSE <<>>)
                         \o (IF fail >= 3 THEN rag ELSE <<>>)]
       ELSE /\ task' = [task EXCEPT ![r] =
                          [t EXCEPT !.pc = "join", !.ingest_output = res.out,
                                    !.genomics = "pending", !.epi_osint = "pending",
                                    !.first_exc = "none"]]
            /\ log' = [log EXCEPT ![r] = @ \o done \o row \o rag \o aud]
    /\ UNCHANGED <<useBedrock, corpusLen, strategyMemory, runStatus>>

Branches == {"genomics", "epi_osint"}

BranchFallback(t, b) ==
    IF b = "genomics" THEN GenomicsFallback(CaseAt(t.idx), t.ingest_output)
    ELSE EpiFallback(CaseAt(t.idx))

\* what a branch hands back to gather
BranchData(b, out) ==
    IF b = "genomics" THEN <<out.genomics_score>> ELSE <<out.epi_score, out.geo_score>>

SetBranch(t, b, st, out) ==
    IF b = "genomics" THEN [t EXCEPT !.genomics = st, !.genomics_output = out]
    ELSE [t EXCEPT !.epi_osint = st, !.epi_output = out]

\* a child of gather runs up to its first suspension: with a capability that
\* is the awaited asyncio.to_thread call; without one the stage runs to its
\* end.  gather schedules genomics first.
BranchStart(r, b) ==
    LET t == task[r] IN
    /\ t[b] = "pending"
    /\ b = "epi_osint" => t.genomics # "pending"
    /\ IF useBedrock
       THEN /\ task' = [task EXCEPT ![r] = [t EXCEPT ![b] = "running"]]
            /\ log' = [log EXCEPT ![r] = @ \o
                         <<Ev("stage", t.idx, b \o "_start", t.strategy_hints)>>]
       ELSE /\ task' = [task EXCEPT ![r] = SetBranch(t, b, "ok", BranchFallback(t, b))]
            /\ log' = [log EXCEPT ![r] = @ \o
                         << Ev("stage", t.idx, b \o "_start", t.strategy_hints),
                            Ev("stage", t.idx, b \o "_done",
                               BranchData(b, BranchFallback(t, b))) >>]
    /\ UNCHANGED <<useBedrock, corpusLen, strategyMemory, runStatus>>

\* a failing child is answered with its local fallback instead of raising
BranchEndSwallow(r, b, reply) ==
    LET t == task[r]
        res == Run(reply, BranchFallback(t, b), TRUE)
    IN
    /\ t[b] = "running"
    /\ t.genomics # "pending" /\ t.epi_osint # "pending"
    /\ reply \in Replies(b)
    /\ IF res.ok
       THEN /\ task' = [task EXCEPT ![r] = SetBranch(t, b, "ok", res.out)]
            /\ log' = [log EXCEPT ![r] = @ \o
                         <<Ev("stage", t.idx, b \o "_done", BranchData(b, res.out))>>]
       ELSE /\ task' = [task EXCEPT ![r] = SetBranch(t, b, "ok", BranchFallback(t, b))]
            /\ log' = [log EXCEPT ![r] = @ \o <<Ev("stage", t.idx, b \o "_raised", <<>>)>>]
    /\ UNCHANGED <<useBedrock, corpusLen, strategyMemory, runStatus>>

\* a child of gather finishes.  Nothing stops it when its sibling has
\* already failed the join: gather does not cancel the other child.
BranchEnd(r, b, reply) ==
    LET t == task[r]
        res == Run(reply, BranchFallback(t, b), TRUE)
    IN
    /\ t[b] = "running"
    /\ t.genomics # "pending" /\ t.epi_osint # "pending"
    /\ reply \in Replies(b)
    /\ IF res.ok
       THEN /\ task' = [task EXCEPT ![r] = SetBranch(t, b, "ok", res.out)]
            /\ log' = [log EXCEPT ![r] = @ \o
                         <<Ev("stage", t.idx, b \o "_done", BranchData(b, res.out))>>]
       ELSE /\ task' = [task EXCEPT ![r] =
                          [t EXCEPT ![b] = "raised",
                                    !.first_exc = IF @ = "none" THEN res.exc ELSE @]]
            /\ log' = [log EXCEPT ![r] = @ \o <<Ev("stage", t.idx, b \o "_raised", <<>>)>>]
    /\ UNCHANGED <<useBedrock, corpusLen, strategyMemory, runStatus>>

\* the await returns as soon as the genomics child has finished
JoinEarly(r) ==
    LET t == task[r] IN
    /\ t.pc = "join"
    /\ t.genomics # "pending" /\ t.epi_osint # "pending"
    /\ \/ /\ t.first_exc # "none"
          /\ task' = [task EXCEPT ![r] = Raise(t, t.first_exc)]
          /\ UNCHANGED log
       \/ /\ t.genomics = "ok"
          /\ task' = [task EXCEPT ![r].pc = "meta"]
          /\ log' = [log EXCEPT ![r] = @ \o
                       <<Ev("stage", t.idx, "meta_start",
                            FusionTuple(t.fusion_state)
                            \o <<t.genomics_output.genomics_score, t.epi_output.epi_score,
                                 t.epi_output.geo_score>>)>>]
    /\ UNCHANGED <<useBedrock, corpusLen, strategyMemory, runStatus>>

\* lines 605-633: the await of gather returns both outputs, or raises the
\* first exception of a child; on success the meta stage is called
Join(r) ==
    LET t == task[r] IN
    /\ t.pc = "join"
    /\ t.genomics # "pending" /\ t.epi_osint # "pending"
    /\ \/ /\ t.first_exc # "none"
          /\ task' = [task EXCEPT ![r] = Raise(t, t.first_exc)]
          /\ UNCHANGED log
       \/ /\ t.genomics = "ok" /\ t.epi_osint = "ok"
          /\ task' = [task EXCEPT ![r].pc = "meta"]
          /\ log' = [log EXCEPT ![r] = @ \o
                       <<Ev("stage", t.idx, "meta_start",
                            FusionTuple(t.fusion_state)
                            \o <<t.genomics_output.genomics_score, t.epi_output.epi_score,
                                 t.epi_output.geo_score>>)>>]
    /\ UNCHANGED <<useBedrock, corpusLen, strategyMemory, runStatus>>

\* lines 635-638: the guardrail
Eligible(severity, confidence_pct) ==
    /\ severity >= guardrail_severity_threshold
    /\ confidence_pct >= guardrail_confidence_threshold_pct

\* lines 635-799, everything between the return of the meta stage and the
\* next iteration; no await in between.  fail names the insert that raises:
\* 1 agent_outputs, 2 decisions, 3 approvals, 4 strategy_memory,
\* 5 audit_logs, 6 runs; 0 none.
CaseTail(r, t, meta_output, fail) ==
    LET case == CaseAt(t.idx)
        eligible == Eligible(meta_output.severity, meta_output.confidence_pct)
        outs == << Ev("agent_outputs", t.idx, "ingest", <<t.ingest_output.score>>),
                   Ev("agent_outputs", t.idx, "genomics", <<t.genomics_output.genomics_score>>),
                   Ev("agent_outputs", t.idx, "epi_osint", <<t.epi_output.epi_score>>),
                   Ev("agent_outputs", t.idx, "meta", <<meta_output.severity>>) >>
        dec == << Ev("decisions", t.idx, "decision",
                     << IF eligible THEN 1 ELSE 0, meta_output.severity,
                        meta_output.confidence_pct, t.fusion_state.threshold >>) >>
        initial_status == IF eligible THEN "pending" ELSE "not_required"
        app == << Ev("approvals", t.idx, initial_status, <<>>) >>
        new_fusion_state ==
            update_fusion_state(t.fusion_state, t.genomics_output.genomics_score,
                                t.epi_output.epi_score, t.epi_output.geo_score,
                                meta_output.severity, meta_output.confidence_pct,
                                case.true_outbreak, case.true_severity)
        strategy_note ==
            build_strategy_update(eligible, case.true_outbreak,
                                  t.genomics_output.genomics_score,
                                  t.epi_output.epi_score, t.epi_output.geo_score)
        mem_row == [ weights_ok |-> TRUE, w_genomics |-> new_fusion_state.w_genomics,
                     w_epi |-> new_fusion_state.w_epi, w_geo |-> new_fusion_state.w_geo,
                     threshold |-> new_fusion_state.threshold, note |-> strategy_note ]
        sm == << Ev("strategy_memory", t.idx, "strategy",
                    FusionTuple(new_fusion_state) \o <<strategy_note>>) >>
        aud == << Ev("audit_logs", t.idx, "strategy_memory_updated", <<>>) >>
        hints == <<strategy_note>> \o t.strategy_hints
        t2 == [t EXCEPT !.metrics_inputs = Append(@, t.idx),
                        !.fusion_state = new_fusion_state,
                        !.strategy_hints = SubSeq(hints, 1, Min(5, Len(hints)))]
        status == RunStatusResponse("running", t.idx, t.total, "none")
        prog == << MemWrite("running", t.idx, t.total, "none") >>
        run_event == << RunEvent("running", t.idx, t.total, "none") >>
        same == [mem |-> runStatus[r], sm |-> strategyMemory]
        fails(evs) == [t |-> Raise(t, "persistence_error"), evs |-> evs] @@ same
    IN  IF fail = 1 THEN fails(<<>>)
        ELSE IF "suggestion" \notin MetaOutputFields
             THEN [t |-> Raise(t, "attribute_error"), evs |-> outs] @@ same
        ELSE IF fail = 2 THEN fails(outs)
        ELSE IF fail = 3 THEN fails(outs \o dec)
        ELSE IF fail = 4 THEN fails(outs \o dec \o app)
        ELSE IF fail = 5
             THEN [ t |-> Raise(t, "persistence_error"), evs |-> outs \o dec \o app \o sm,
                    mem |-> runStatus[r], sm |-> <<mem_row>> \o strategyMemory ]
        ELSE IF fail = 6
             THEN [ t |-> Raise(t2, "persistence_error"),
                    evs |-> outs \o dec \o app \o sm \o aud \o prog,
                    mem |-> status, sm |-> <<mem_row>> \o strategyMemory ]
        ELSE [ t |-> [t2 EXCEPT !.pc = "loop", !.idx = t.idx + 1,
                                !.genomics = "idle", !.epi_osint = "idle"],
               evs |-> outs \o dec \o app \o sm \o aud \o prog \o run_event,
               mem |-> status, sm |-> <<mem_row>> \o strategyMemory ]

\* lines 623-799: the meta stage returns or raises, then the rest of the iteration
MetaDone(r, reply, fail) ==
    LET t == task[r]
        res == Run(reply,
                   MetaFallback(t.ingest_output, t.genomics_output, t.epi_output, t.fusion_state),
                   SchemaAccepts(MetaOutputFields, MetaFallbackKeys))
        tail == CaseTail(r, t, res.out, fail)
    IN
    /\ t.pc = "meta"
    /\ reply \in Replies("meta")
    /\ IF ~res.ok
       THEN /\ fail = 0
            /\ task' = [task EXCEPT ![r] = Raise(t, res.exc)]
            /\ log' = [log EXCEPT ![r] = @ \o <<Ev("stage", t.idx, "meta_raised", <<>>)>>]
            /\ UNCHANGED <<runStatus, strategyMemory>>
       ELSE /\ task' = [task EXCEPT ![r] = tail.t]
            /\ log' = [log EXCEPT ![r] = @ \o <<Ev("stage", t.idx, "meta_done",
                                                    <<res.out.severity, res.out.confidence_pct>>)>>
                                           \o tail.evs]
            /\ runStatus' = [runStatus EXCEPT ![r] = tail.mem]
            /\ strategyMemory' = tail.sm
    /\ UNCHANGED <<useBedrock, corpusLen>>

\* lines 801-843.  fail = 1: the metrics insert raises; 2: the runs insert;
\* 3: the audit insert
FinishRun(r, fail) ==
    LET t == task[r]
        met == <<Ev("metrics", 0, "metrics", t.metrics_inputs)>>
        status == RunStatusResponse("completed", t.total, t.total, "none")
        mem == <<MemWrite("completed", t.total, t.total, "none")>>
        run_event == <<RunEvent("completed", t.total, t.total, "none")>>
        aud == <<Ev("audit_logs", 0, "run_completed", <<>>)>>
    IN
    /\ t.pc = "finish"
    /\ task' = [task EXCEPT ![r] =
                 IF fail = 0 THEN [t EXCEPT !.pc = "done"] ELSE Raise(t, "persistence_error")]
    /\ runStatus' = [runStatus EXCEPT ![r] = IF fail = 1 THEN @ ELSE status]
    /\ log' = [log EXCEPT ![r] = @ \o
                 (IF fail = 1 THEN <<>>
                  ELSE IF fail = 2 THEN met \o mem
                  ELSE IF fail = 3 THEN met \o mem \o run_event
                  ELSE met \o mem \o run_event \o aud)]
    /\ UNCHANGED <<useBedrock, corpusLen, strategyMemory>>

\* lines 844-873, the except block.  fail = 1: the runs insert raises;
\* 2: the audit insert raises; either escapes _execute_run
HandleFailure(r, fail) ==
    LET t == task[r]
        processed == runStatus[r].processed
        status == RunStatusResponse("failed", processed, t.total, t.exc)
    IN
    /\ t.pc = "except"
    /\ runStatus' = [runStatus EXCEPT ![r] = status]
    /\ task' = [task EXCEPT ![r].pc = IF fail = 0 THEN "done" ELSE "crashed"]
    /\ log' = [log EXCEPT ![r] = @ \o
                 <<MemWrite("failed", processed, t.total, t.exc)>>
                 \o (IF fail # 1 THEN <<RunEvent("failed", processed, t.total, t.exc)>> ELSE <<>>)
                 \o (IF fail = 0 THEN <<Ev("audit_logs", 0, "run_failed", <<>>)>> ELSE <<>>)]
    /\ UNCHANGED <<useBedrock, corpusLen, strategyMemory>>

AnyReply == UNION {Replies(st) : st \in {"ingest", "genomics", "epi_osint", "meta"}}

Next ==
    \/ \E r \in RunIds, n \in NumCasesInputs, fail \in 0..2 : StartRun(r, n, fail) /\ UNCHANGED unitVars
    \/ \E r \in RunIds, fail \in 0..2 : BeginRun(r, fail) /\ UNCHANGED unitVars
    \/ \E r \in RunIds, fail \in 0..1 : NextCase(r, fail) /\ UNCHANGED unitVars
    \/ \E r \in RunIds, reply \in AnyReply, fail \in 0..3 : IngestDone(r, reply, fail) /\ UNCHANGED unitVars
    \/ \E r \in RunIds, b \in Branches : BranchStart(r, b) /\ UNCHANGED unitVars
    \/ \E r \in RunIds, b \in Branches, reply \in AnyReply : BranchEnd(r, b, reply) /\ UNCHANGED unitVars
    \/ \E r \in RunIds : Join(r) /\ UNCHANGED unitVars
    \/ \E r \in RunIds, reply \in AnyReply, fail \in 0..6 : MetaDone(r, reply, fail) /\ UNCHANGED unitVars
    \/ \E r \in RunIds, fail \in 0..3 : FinishRun(r, fail) /\ UNCHANGED unitVars
    \/ \E r \in RunIds, fail \in 0..2 : HandleFailure(r, fail) /\ UNCHANGED unitVars

Spec == Init /\ [][Next]_vars

(***************************************************************************)
(* SpecStage: one call of AgentBase.run followed step by step              *)
(* (agents/base.py).  Delays are in milliseconds.                          *)
(***************************************************************************)
max_attempts == 3

Stages == {"ingest", "genomics", "epi_osint", "meta"}

\* fields of the stage's output schema (app/models.py)
OutputFields(stage) ==
    CASE stage = "ingest" -> {"normalized_case", "credibility_score", "score", "confidence", "evidence"}
      [] stage = "genomics" -> {"genomics_score", "confidence", "risk_band", "evidence"}
      [] stage = "epi_osint" -> {"epi_score", "geo_score", "signal_to_noise", "confidence",
                                 "evidence", "noise_flags"}
      [] stage = "meta" -> MetaOutputFields

\* keys of the dict the stage's local_fallback returns
FallbackKeys(stage) ==
    CASE stage = "ingest" -> {"normalized_case", "credibility_score", "score", "confidence", "evidence"}
      [] stage = "genomics" -> {"genomics_score", "confidence", "risk_band", "evidence"}
      [] stage = "epi_osint" -> {"epi_score", "geo_score", "signal_to_noise", "confidence",
                                 "evidence", "noise_flags"}
      [] stage = "meta" -> MetaFallbackKeys

\* A text the capability answers with.  shape: "empty"; "prose" (no braces);
\* "broken" (braces around something that is not JSON); "object" (a JSON
\* object and nothing else); "fenced" (an object inside ```json fences);
\* "embedded" (an object inside prose).  object says whether the object in it
\* passes the stage's schema.
RawTexts ==
    {[shape |-> sh, object |-> ob] : sh \in {"object", "fenced", "embedded"},
                                     ob \in {"conforming", "nonconforming"}}
    \cup {[shape |-> sh, object |-> "none"] : sh \in {"empty", "prose", "broken"}}

\* _invoke_bedrock raised instead of returning a text
Failure == [shape |-> "error", object |-> "none"]

\* the dict found in the text, or "None"
_extract_json(text) ==
    IF text.shape \in {"object", "fenced", "embedded"} THEN text.object ELSE "None"

\* every first response is followed by a repair round-trip when nothing
\* could be extracted, whatever the invocation
NeedsRepairAlways(invocation, text) == _extract_json(text) = "None"

\* _run_bedrock_with_repair: the repair round-trip follows the first
\* invocation only, and only when nothing could be extracted from it
NeedsRepair(invocation, text) == invocation = 1 /\ _extract_json(text) = "None"

\* call.done: the retried invocations that have ended, each with the number
\* of attempts it made, the sleeps between them and how it ended
StartCall(stage) ==
    [ pc |-> "start", stage |-> stage, invocation |-> 0, attempt |-> 0, delay |-> 0,
      sleeps |-> <<>>, done |-> <<>>, parsed |-> "None", result |-> "none", exc |-> "none" ]

InitStage ==
    /\ useBedrock \in BOOLEAN
    /\ corpusLen = 0
    /\ strategyMemory = <<>>
    /\ runStatus = [r \in RunIds |-> NoStatus]
    /\ task = [r \in RunIds |-> IdleTask]
    /\ log = [r \in RunIds |-> <<>>]
    /\ call \in {StartCall(stage) : stage \in Stages}
    /\ fusion = NoFusion
    /\ retriever = NoRetriever
    /\ scoring = NoScoring
    /\ reranking = NoReranking
    /\ embedding = NoEmbedding
    /\ dispatching = NoDispatching
    /\ desk = NoDesk
    /\ notebook = NoNotebook
    /\ ingesting = NoIngesting
    /\ scanning = NoScanning
    /\ guarding = NoGuarding

\* run, lines 44-47: with a capability the first retried invocation starts
\* (delay = 0.6); without one control goes straight to the fallback
StageBegin ==
    /\ call.pc = "start"
    /\ call' = IF useBedrock
               THEN [call EXCEPT !.pc = "invoke", !.invocation = 1, !.attempt = 1, !.delay = 600]
               ELSE [call EXCEPT !.pc = "parsed"]
    /\ UNCHANGED restOfCall

Ended(c, how, text) ==
    Append(c.done, [attempts |-> c.attempt, sleeps |-> c.sleeps, ended |-> how, text |-> text])

\* one attempt of _invoke_with_retry (lines 99-105) and, when it returns,
\* what _run_bedrock_with_repair does with the text (lines 83-95).
\* outcome: Failure (_invoke_bedrock raises) or the text it returns
Invoke(outcome) ==
    /\ call.pc = "invoke"
    /\ call' =
         IF outcome = Failure
         THEN IF call.attempt = max_attempts
              THEN [call EXCEPT !.pc = "raised", !.exc = "capability_error",
                                !.done = Ended(call, "raised", Failure)]
              ELSE [call EXCEPT !.pc = "sleep"]
         ELSE IF NeedsRepair(call.invocation, outcome)
              THEN [call EXCEPT !.invocation = @ + 1, !.attempt = 1, !.delay = 600,
                                !.sleeps = <<>>, !.done = Ended(call, "returned", outcome)]
              ELSE [call EXCEPT !.pc = "parsed", !.parsed = _extract_json(outcome),
                                !.done = Ended(call, "returned", outcome)]
    /\ UNCHANGED restOfCall

\* the delay stays what it was
BackoffFixed ==
    /\ call.pc = "sleep"
    /\ call' = [call EXCEPT !.pc = "invoke", !.attempt = @ + 1,
                            !.sleeps = Append(@, call.delay)]
    /\ UNCHANGED restOfCall

\* lines 106-107: sleep, then double the delay for the next failure
Backoff ==
    /\ call.pc = "sleep"
    /\ call' = [call EXCEPT !.pc = "invoke", !.attempt = @ + 1,
                            !.sleeps = Append(@, call.delay), !.delay = 2 * @]
    /\ UNCHANGED restOfCall

\* run, lines 48-55: the parsed object is returned when it passes the schema;
\* otherwise the local fallback is validated and returned
StageReturn ==
    /\ call.pc = "parsed"
    /\ call' =
         IF call.parsed = "conforming"
         THEN [call EXCEPT !.pc = "returned", !.result = "capability"]
         ELSE IF SchemaAccepts(OutputFields(call.stage), FallbackKeys(call.stage))
         THEN [call EXCEPT !.pc = "returned", !.result = "fallback"]
         ELSE [call EXCEPT !.pc = "raised", !.exc = "validation_error"]
    /\ UNCHANGED restOfCall

NextStage ==
    \/ StageBegin
    \/ \E outcome \in {Failure} \cup RawTexts : Invoke(outcome)
    \/ Backoff
    \/ StageReturn

SpecStage == InitStage /\ [][NextStage]_vars

(***************************************************************************)
(* SpecFusion: the guardrail and update_fusion_state applied case after    *)
(* case to a fusion state (service.py:635-638 and 702-709,                 *)
(* improve/update.py).                                                     *)
(***************************************************************************)
MaxUpdates == 9

\* valid FusionState values an update can start from: the default, one whose
\* weights do not sum to 1 and whose threshold is at the upper bound, one at
\* the lower bound
SeedStates ==
    { default_fusion_state,
      [w_genomics |-> 10000000, w_epi |-> 5000000, w_geo |-> 5000000, threshold |-> 850],
      [w_genomics |-> 5000000, w_epi |-> 3000000, w_geo |-> 2000000, threshold |-> 400] }

\* what one processed case hands to the guardrail and to the update: the
\* component scores, the meta output and the case's ground truth
UpdateInputs ==
    {[gs |-> 0, es |-> 10000, os |-> 0, severity |-> sev, confidence_pct |-> 6000,
      true_outbreak |-> TRUE, true_severity |-> 10000] : sev \in {3000, 6950, 8000}}
    \cup
    {[gs |-> 0, es |-> 10000, os |-> 10000, severity |-> sev, confidence_pct |-> 6000,
      true_outbreak |-> FALSE, true_severity |-> 0] : sev \in {6000, 7000, 9000}}

NoInput ==
    [gs |-> 0, es |-> 0, os |-> 0, severity |-> 0, confidence_pct |-> 0,
     true_outbreak |-> FALSE, true_severity |-> 0]

InitFusion ==
    /\ useBedrock = FALSE
    /\ corpusLen = 0
    /\ strategyMemory = <<>>
    /\ runStatus = [r \in RunIds |-> NoStatus]
    /\ task = [r \in RunIds |-> IdleTask]
    /\ log = [r \in RunIds |-> <<>>]
    /\ call = NoCall
    /\ fusion \in {[state |-> fs, origin |-> fs, n |-> 0, prev |-> fs, input |-> NoInput,
                    eligible |-> FALSE] : fs \in SeedStates}
    /\ retriever = NoRetriever
    /\ scoring = NoScoring
    /\ reranking = NoReranking
    /\ embedding = NoEmbedding
    /\ dispatching = NoDispatching
    /\ desk = NoDesk
    /\ notebook = NoNotebook
    /\ ingesting = NoIngesting
    /\ scanning = NoScanning
    /\ guarding = NoGuarding

\* one case: eligible is what the guardrail decided, state what the update
\* returned; prev and input keep what the update was called with
ApplyUpdate(in) ==
    /\ fusion.n >= 0 /\ fusion.n < MaxUpdates
    /\ fusion' = [fusion EXCEPT
                    !.state = update_fusion_state(fusion.state, in.gs, in.es, in.os,
                                                  in.severity, in.confidence_pct,
                                                  in.true_outbreak, in.true_severity),
                    !.prev = fusion.state, !.n = @ + 1, !.input = in,
                    !.eligible = Eligible(in.severity, in.confidence_pct)]
    /\ UNCHANGED restOfFusion

NextFusion == \E in \in UpdateInputs : ApplyUpdate(in)

SpecFusion == InitFusion /\ [][NextFusion]_vars

(***************************************************************************)
(* Retriever (rag/retrieve.py), InMemoryVectorIndex (rag/index.py) and     *)
(* Reranker (rag/rerank.py).  A Python dict is a tagged value: "dict" with *)
(* its items, "leaf" for a scalar or a text, "vector" for a list of        *)
(* floats.  Texts are the sequence of the values they were joined from,    *)
(* dates are day numbers, vector components are in hundredths and          *)
(* similarities in units of 1e-4.                                          *)
(***************************************************************************)
MaxRows == 2

Leaf(v) == [kind |-> "leaf", v |-> v]
Vector(v) == [kind |-> "vector", v |-> v]
Dict(f) == [kind |-> "dict", items |-> f]
None == Leaf(0 - 1)
Keys(d) == DOMAIN d.items

\* dict.get(key), dict.get(key, {}) and dict.get(key, [])
Get(d, key) == IF key \in Keys(d) THEN d.items[key] ELSE None
GetDict(d, key) == IF key \in Keys(d) THEN d.items[key] ELSE Dict(<<>>)
GetList(d, key) == IF key \in Keys(d) THEN d.items[key].v ELSE <<>>
Without(d, keys) == Dict([k \in Keys(d) \ keys |-> d.items[k]])

\* the synthetic corpus: RawCaseInput fields, ground truth included
CaseIds == 1..3
CaseDate(id) == IF id = 1 THEN 10 ELSE 20
SyntheticCase(id) ==
    Dict([ case_id |-> Leaf(id), country |-> Leaf(40 + id), city |-> Leaf(50 + id),
           lat |-> Leaf(0), lon |-> Leaf(0), date |-> Leaf(CaseDate(id)),
           pathogen_label |-> Leaf(60 + (id % 2)),
           genomic |-> Dict([mutation_novelty |-> Leaf(55), lineage_deviation |-> Leaf(40),
                             recombination_flag |-> Leaf(id % 2)]),
           epi_osint |-> Dict([anomaly_score |-> Leaf(55), reliability_hint |-> Leaf(70),
                               source_types |-> Leaf(<<1, 2>>), news_snippets |-> Leaf(<<id>>)]),
           geo |-> Dict([travel_hub_score |-> Leaf(50), population_density_score |-> Leaf(50),
                         border_connectivity |-> Leaf(50)]),
           ground_truth |-> Dict([true_outbreak |-> Leaf(id % 2), true_severity |-> Leaf(8000),
                                  official_alert_date |-> Leaf(CaseDate(id) + 5)]) ])
_synthetic_cases == [id \in CaseIds |-> SyntheticCase(id)]

\* IngestAgent.local_fallback: normalized_case = {**case, three derived fields}
NormalizedCase(case) ==
    Dict([k \in Keys(case) \cup {"credibility_score", "derived_geo_pressure",
                                 "derived_genomic_pressure"} |->
            IF k \in Keys(case) THEN case.items[k] ELSE Leaf(50)])

case_to_embedding_text(case_payload) ==
    LET genomic == GetDict(case_payload, "genomic")
        epi == GetDict(case_payload, "epi_osint")
        geo == GetDict(case_payload, "geo")
    IN << Get(case_payload, "case_id").v, Get(case_payload, "country").v,
          Get(case_payload, "city").v, Get(case_payload, "pathogen_label").v,
          Get(genomic, "mutation_novelty").v, Get(genomic, "lineage_deviation").v,
          Get(genomic, "recombination_flag").v, Get(epi, "anomaly_score").v,
          Get(epi, "reliability_hint").v, Get(epi, "source_types").v,
          Get(epi, "news_snippets").v, Get(geo, "travel_hub_score").v,
          Get(geo, "population_density_score").v, Get(geo, "border_connectivity").v >>

\* EmbeddingService.embed_text: a fixed unit vector per text (the texts of the
\* model differ in their first token); a text without token gives the zero vector
embed_text(text) ==
    IF Len(text) = 0 THEN <<0, 0>>
    ELSE IF text[1] = 1 THEN <<100, 0>>
    ELSE IF text[1] = 2 THEN <<60, 80>>
    ELSE IF text[1] = 3 THEN <<80, 60>>
    ELSE <<0, 100>>

Isqrt(n) == CHOOSE r \in 0..142 : r * r <= n /\ (r + 1) * (r + 1) > n

cosine_similarity(a, b) ==
    IF Len(a) = 0 \/ Len(b) = 0 THEN 0
    ELSE LET n == Min(Len(a), Len(b))
             dot == a[1] * b[1] + (IF n >= 2 THEN a[2] * b[2] ELSE 0)
             sq(v) == v[1] * v[1] + (IF n >= 2 THEN v[2] * v[2] ELSE 0)
             norm_a == IF Isqrt(sq(a)) = 0 THEN 1 ELSE Isqrt(sq(a))
             norm_b == IF Isqrt(sq(b)) = 0 THEN 1 ELSE Isqrt(sq(b))
         IN (dot * 10000) \div (norm_a * norm_b)

\* build_past_outbreak_index, lines 31-37: the payload stored with each item
IndexPayloadWholeCase(case, text) ==
    Dict([k \in Keys(case) \cup {"summary"} |->
            IF k = "summary" THEN Leaf(text) ELSE case.items[k]])
IndexPayload(case, text) ==
    Dict([ case_id |-> Get(case, "case_id"), country |-> Get(case, "country"),
           city |-> Get(case, "city"), date |-> Get(case, "date"), summary |-> Leaf(text) ])

\* IndexedItem, as build_past_outbreak_index adds it
IndexedItem(case) ==
    LET text == case_to_embedding_text(case)
    IN [ item_id |-> Get(case, "case_id").v, payload |-> IndexPayload(case, text),
         embedding |-> embed_text(text) ]

\* a row of table cases as _insert_case_record writes it and
\* _search_clickhouse_cases selects it
CaseRow(id, created_at) ==
    LET normalized == NormalizedCase(SyntheticCase(id))
    IN Dict([ case_id |-> Leaf(id), run_id |-> Leaf(1), case_date |-> Leaf(CaseDate(id)),
              normalized_json |-> normalized,
              embedding |-> Vector(embed_text(case_to_embedding_text(normalized))),
              created_at |-> Leaf(created_at) ])

\* a row of table strategy_memory as _execute_run writes it
NoteIds == {7, 8}
StrategyRow(id, created_at) ==
    Dict([ run_id |-> Leaf(1), case_id |-> Leaf(id - 6), strategy_notes |-> Leaf(<<id>>),
           updated_prompts_json |-> Dict([ingest |-> Leaf(<<1>>), genomics |-> Leaf(<<2>>),
                                          epi_osint |-> Leaf(<<3>>), meta |-> Leaf(<<4>>)]),
           weights_json |-> Dict([w_genomics |-> Leaf(4000000), w_epi |-> Leaf(4000000),
                                  w_geo |-> Leaf(2000000)]),
           threshold |-> Leaf(700),
           embedding |-> Vector(embed_text(<<id>>)),
           created_at |-> Leaf(created_at) ])

\* Settings
rag_top_k == 3
max_vector_scan == 500

\* ORDER BY created_at DESC LIMIT max_vector_scan
Newest(table) ==
    [i \in 1..Min(Len(table), max_vector_scan) |-> table[Len(table) + 1 - i]]

\* _coerce_date: a date, or None for what is no date
_coerce_date(value) == IF value.kind = "leaf" /\ value.v > 0 THEN value ELSE None

\* _loads_json: the stored object, or {} for what is no object
_loads_json(value) == IF value.kind = "dict" THEN value ELSE Dict(<<>>)

\* len(str(payload)): grows with every key and every value
RECURSIVE StrLen(_)
RECURSIVE StrLenOver(_, _)
StrLenOver(d, keys) ==
    IF keys = {} THEN 0
    ELSE LET k == CHOOSE x \in keys : TRUE
         IN 1 + StrLen(d.items[k]) + StrLenOver(d, keys \ {k})
StrLen(x) ==
    IF x.kind = "dict" THEN 2 + StrLenOver(x, Keys(x))
    ELSE IF x.kind = "vector" THEN Len(x.v)
    ELSE 1

\* the sort key: similarity, and with by_size (the local reranker) the
\* length of the printed payload
KeyGE(a, b, by_size) ==
    LET sa == Get(a, "similarity").v
        sb == Get(b, "similarity").v
    IN \/ sa > sb
       \/ sa = sb /\ (~by_size \/ StrLen(Get(a, "payload")) >= StrLen(Get(b, "payload")))

\* list.sort(reverse=True) and sorted(reverse=True): descending and stable
RECURSIVE SortDesc(_, _)
SortDesc(items, by_size) ==
    IF Len(items) = 0 THEN <<>>
    ELSE LET rest == SortDesc(SubSeq(items, 1, Len(items) - 1), by_size)
             x == items[Len(items)]
             p == Cardinality({i \in 1..Len(rest) : KeyGE(rest[i], x, by_size)})
         IN SubSeq(rest, 1, p) \o <<x>> \o SubSeq(rest, p + 1, Len(rest))

Take(items, k) == SubSeq(items, 1, Min(k, Len(items)))

RECURSIVE Keep(_, _)
Keep(items, ok) ==
    IF Len(items) = 0 THEN <<>>
    ELSE (IF ok[1] THEN <<items[1]>> ELSE <<>>) \o Keep(Tail(items), Tail(ok))

\* InMemoryVectorIndex.search
search(index, query_embedding, k) ==
    LET scored == [i \in 1..Len(index) |->
                     Dict([ item_id |-> Leaf(index[i].item_id),
                            similarity |-> Leaf(cosine_similarity(query_embedding,
                                                                  index[i].embedding)),
                            payload |-> index[i].payload ])]
    IN Take(SortDesc(scored, FALSE), k)

_search_clickhouse_cases(table, case_id, query_embedding, current_case_date, k) ==
    LET rows == Newest(table)
        kept(row) ==
            /\ Get(row, "case_id") # Leaf(case_id)
            /\ ~ /\ current_case_date # None
                 /\ _coerce_date(Get(row, "case_date")) # None
                 /\ _coerce_date(Get(row, "case_date")).v > current_case_date.v
        item(row) ==
            LET normalized == _loads_json(Get(row, "normalized_json"))
            IN Dict([ item_id |-> Get(row, "case_id"),
                      similarity |-> Leaf(cosine_similarity(query_embedding,
                                                            GetList(row, "embedding"))),
                      payload |-> Dict([ run_id |-> Get(row, "run_id"),
                                         summary |-> Dict([
                                             country |-> Get(normalized, "country"),
                                             city |-> Get(normalized, "city"),
                                             pathogen_label |-> Get(normalized, "pathogen_label"),
                                             date |-> IF Get(normalized, "date") # None
                                                      THEN Get(normalized, "date")
                                                      ELSE Get(row, "case_date") ]) ]) ])
        scored == Keep([i \in 1..Len(rows) |-> item(rows[i])],
                       [i \in 1..Len(rows) |-> kept(rows[i])])
    IN Take(SortDesc(scored, FALSE), k)

_search_strategy_memory(table, query_embedding, k) ==
    LET rows == Newest(table)
        item(row) ==
            Dict([ item_id |-> Leaf(<<Get(row, "run_id").v, Get(row, "case_id").v>>),
                   similarity |-> Leaf(cosine_similarity(query_embedding,
                                                         GetList(row, "embedding"))),
                   payload |-> Dict([ run_id |-> Get(row, "run_id"),
                                      case_id |-> Get(row, "case_id"),
                                      strategy_notes |-> Get(row, "strategy_notes"),
                                      updated_prompts |-> _loads_json(Get(row, "updated_prompts_json")),
                                      weights |-> _loads_json(Get(row, "weights_json")),
                                      threshold |-> Get(row, "threshold") ]) ])
    IN Take(SortDesc([i \in 1..Len(rows) |-> item(rows[i])], FALSE), k)

\* _filter_past_outbreak_hits: the first top_k hits that are neither the
\* querying case nor dated after it
_filter_past_outbreak_hits(case_id, current_case_date, hits, top_k) ==
    LET kept(hit) ==
            LET payload == GetDict(hit, "payload")
            IN /\ Get(payload, "case_id") # Leaf(case_id)
               /\ ~ /\ current_case_date # None
                    /\ _coerce_date(Get(payload, "date")) # None
                    /\ _coerce_date(Get(payload, "date")).v > current_case_date.v
    IN Take(Keep(hits, [i \in 1..Len(hits) |-> kept(hits[i])]), top_k)

\* what the remote rerank capability does with a call: it raises, or it
\* answers with the documents in reverse order, at most numberOfResults
RemoteOutcomes == {"raises", "reversed"}

_rerank_local_all(items, top_k) == SortDesc(items, TRUE)
_rerank_local(items, top_k) == Take(SortDesc(items, TRUE), top_k)

_rerank_remote(items, top_k) ==
    LET n == Min(top_k, Len(items))
    IN [i \in 1..n |->
          Dict([k \in Keys(items[Len(items) + 1 - i]) \cup {"rerank_score"} |->
                  IF k = "rerank_score" THEN Leaf(1000 - i)
                  ELSE items[Len(items) + 1 - i].items[k]])]

\* _rerank_amazon / _rerank_cohere as a call that returns or raises: the
\* client call raises, or the loop over the response raises IndexError on an
\* index past the candidates, or the reranked list is returned
RemoteCall(items, top_k, remote) ==
    IF remote = "reversed"
    THEN [raised |-> FALSE, value |-> _rerank_remote(items, top_k)]
    ELSE [raised |-> TRUE, value |-> <<>>]

\* Reranker.rerank, lines 40-57: what it returns and whether it raises;
\* remote is "none" when use_rerank is off
rerank_outcome(items, top_k, remote) ==
    IF Len(items) = 0 THEN [raised |-> FALSE, value |-> items]
    ELSE LET k == IF top_k # 0 THEN top_k ELSE Len(items)
         IN IF remote # "none" /\ ~RemoteCall(items, k, remote).raised
            THEN [raised |-> FALSE, value |-> RemoteCall(items, k, remote).value]
            ELSE [raised |-> FALSE, value |-> _rerank_local(items, k)]

\* Reranker.rerank: the list it returns
rerank(items, top_k, remote) == rerank_outcome(items, top_k, remote).value

heavy_keys == {"embedding", "normalized_json", "ground_truth", "ground_truth_json"}

_strip_heavy_fields(items) ==
    [i \in 1..Len(items) |->
       LET light == Without(items[i], heavy_keys)
       IN IF Get(light, "payload").kind = "dict"
          THEN Dict([k \in Keys(light) |->
                       IF k = "payload" THEN Without(light.items[k], heavy_keys)
                       ELSE light.items[k]])
          ELSE light]

\* Retriever.retrieve
retrieve(r, case_id, normalized_case, query_embedding, top_k, remote) ==
    LET k == IF top_k # 0 THEN top_k ELSE rag_top_k
        current_case_date == _coerce_date(Get(normalized_case, "date"))
        from_clickhouse == _search_clickhouse_cases(r.cases, case_id, query_embedding,
                                                    current_case_date, k)
        overscan == Max(k * 10, k + 8)
        from_past_all == search(r.index, query_embedding, overscan)
        from_past == _filter_past_outbreak_hits(case_id, current_case_date, from_past_all, k)
        from_strategy == _search_strategy_memory(r.strategy_memory, query_embedding, k)
    IN [ clickhouse_records |-> _strip_heavy_fields(rerank(from_clickhouse, k, remote)),
         past_outbreak_cases |-> _strip_heavy_fields(rerank(from_past, k, remote)),
         strategy_memory |-> _strip_heavy_fields(rerank(from_strategy, k, remote)),
         query_case |-> Dict([ case_id |-> Leaf(case_id),
                               country |-> Get(normalized_case, "country"),
                               city |-> Get(normalized_case, "city") ]) ]

TopKs == {0, 1, 2}
NoResult == [query_case |-> None]

\* Retriever.__init__: an empty index; the tables are empty before any run.
\* result is what the last call of retrieve returned; its caller has used it
\* by the time anything else is written
InitRetrieve ==
    /\ useBedrock = FALSE
    /\ corpusLen = 0
    /\ strategyMemory = <<>>
    /\ runStatus = [r \in RunIds |-> NoStatus]
    /\ task = [r \in RunIds |-> IdleTask]
    /\ log = [r \in RunIds |-> <<>>]
    /\ call = NoCall
    /\ fusion = NoFusion
    /\ scoring = NoScoring
    /\ reranking = NoReranking
    /\ embedding = NoEmbedding
    /\ dispatching = NoDispatching
    /\ desk = NoDesk
    /\ notebook = NoNotebook
    /\ ingesting = NoIngesting
    /\ scanning = NoScanning
    /\ guarding = NoGuarding
    /\ \E use_rerank \in BOOLEAN :
          retriever = [ pc |-> "ready", use_rerank |-> use_rerank, index |-> <<>>,
                        cases |-> <<>>, strategy_memory |-> <<>>, result |-> NoResult ]

\* SentinelService.initialize: the index is rebuilt from the first n corpus cases
BuildIndex(n) ==
    /\ retriever.pc = "ready"
    /\ retriever' = [retriever EXCEPT
                       !.index = [i \in 1..n |-> IndexedItem(_synthetic_cases[i])],
                       !.result = NoResult]
    /\ UNCHANGED restOfRetriever

\* _insert_case_record, by this run or an earlier one
InsertCase(id) ==
    /\ retriever.pc = "ready"
    /\ Len(retriever.cases) < MaxRows
    /\ retriever' = [retriever EXCEPT
                       !.cases = Append(@, CaseRow(id, Len(@) + 1)),
                       !.result = NoResult]
    /\ UNCHANGED restOfRetriever

\* the strategy_memory insert of _execute_run, by an earlier run
InsertStrategy(id) ==
    /\ retriever.pc = "ready"
    /\ Len(retriever.strategy_memory) < MaxRows
    /\ retriever' = [retriever EXCEPT
                       !.strategy_memory = Append(@, StrategyRow(id, Len(@) + 1)),
                       !.result = NoResult]
    /\ UNCHANGED restOfRetriever

\* _execute_run, lines 578-594: retrieve for the case just normalized.
\* retrieve writes nothing, so a second call on the same tables returns what
\* the first returned: it is taken once per content of the tables
Retrieve(id, top_k, remote) ==
    /\ retriever.pc = "ready"
    /\ retriever.result = NoResult
    /\ remote \in (IF retriever.use_rerank THEN RemoteOutcomes ELSE {"none"})
    /\ \E normalized_case \in {NormalizedCase(SyntheticCase(id))} :
       \E case_embedding \in {embed_text(case_to_embedding_text(normalized_case))} :
          retriever' = [retriever EXCEPT
                          !.result = retrieve(retriever, id, normalized_case,
                                              case_embedding, top_k, remote)]
    /\ UNCHANGED restOfRetriever

NextRetrieve ==
    \/ \E n \in 0..Len(_synthetic_cases) : BuildIndex(n)
    \/ \E id \in CaseIds : InsertCase(id)
    \/ \E id \in NoteIds : InsertStrategy(id)
    \/ \E id \in CaseIds, top_k \in TopKs, remote \in RemoteOutcomes \cup {"none"} :
          Retrieve(id, top_k, remote)

SpecRetrieve == InitRetrieve /\ [][NextRetrieve]_vars

(***************************************************************************)
(* One case of _execute_run (service.py:562-633) with the data each stage  *)
(* is given: payload, retrieval context and strategy notes.                *)
(***************************************************************************)
\* RawCaseInput.model_dump(mode="json"): every field of the model
model_dump(case) == case

\* what the ingest stage returns as normalized_case: its fallback, or with a
\* capability whatever object the reply holds (IngestOutput takes any dict):
\* the case as given, the case without its ground_truth, the case without
\* its date
NormalizedCases(case, bedrock) ==
    IF bedrock
    THEN {NormalizedCase(case), Without(NormalizedCase(case), {"ground_truth"}),
          Without(NormalizedCase(case), {"date"})}
    ELSE {NormalizedCase(case)}

\* IngestOutput.model_dump()
IngestOutputDump(normalized_case) ==
    Dict([ normalized_case |-> normalized_case, credibility_score |-> Leaf(670),
           score |-> Leaf(5000), confidence |-> Leaf(800), evidence |-> Leaf(<<1, 2, 3>>) ])

\* GenomicsOutput.model_dump(), EpiOsintOutput.model_dump(), FusionState.model_dump()
GenomicsOutputDump ==
    Dict([ genomics_score |-> Leaf(5000), confidence |-> Leaf(700), risk_band |-> Leaf(2),
           evidence |-> Leaf(<<1>>) ])
EpiOutputDump ==
    Dict([ epi_score |-> Leaf(5000), geo_score |-> Leaf(5000), signal_to_noise |-> Leaf(600),
           confidence |-> Leaf(700), evidence |-> Leaf(<<1>>), noise_flags |-> Leaf(<<>>) ])
FusionStateDump ==
    Dict([ w_genomics |-> Leaf(default_fusion_state.w_genomics),
           w_epi |-> Leaf(default_fusion_state.w_epi),
           w_geo |-> Leaf(default_fusion_state.w_geo),
           threshold |-> Leaf(default_fusion_state.threshold) ])

\* the arguments of one AgentBase.run call
StageInput(stage, payload, rag_context, strategy_notes) ==
    [ stage |-> stage, payload |-> payload, rag_context |-> rag_context,
      strategy_notes |-> strategy_notes ]

\* _load_recent_strategy_notes: the notes of the five newest rows
RecentNotes(table) ==
    LET rows == Newest(table)
    IN [i \in 1..Min(5, Len(rows)) |-> Get(rows[i], "strategy_notes")]

\* tables as earlier runs left them: no row, or one row of some case
StoredCases == {<<>>} \cup {<<CaseRow(id, 1)>> : id \in CaseIds}
StoredStrategies == {<<>>} \cup {<<StrategyRow(id, 1)>> : id \in NoteIds}

InitCase ==
    /\ useBedrock \in BOOLEAN
    /\ corpusLen = 0
    /\ strategyMemory = <<>>
    /\ runStatus = [r \in RunIds |-> NoStatus]
    /\ task = [r \in RunIds |-> IdleTask]
    /\ log = [r \in RunIds |-> <<>>]
    /\ call = NoCall
    /\ fusion = NoFusion
    /\ retriever = NoRetriever
    /\ reranking = NoReranking
    /\ embedding = NoEmbedding
    /\ dispatching = NoDispatching
    /\ desk = NoDesk
    /\ notebook = NoNotebook
    /\ ingesting = NoIngesting
    /\ scanning = NoScanning
    /\ guarding = NoGuarding
    /\ \E id \in CaseIds, cases \in StoredCases, strategies \in StoredStrategies :
          scoring = [ pc |-> "ingest", case_id |-> id,
                      index |-> [i \in 1..Len(_synthetic_cases) |->
                                   IndexedItem(_synthetic_cases[i])],
                      cases |-> cases, strategy_memory |-> strategies,
                      strategy_hints |-> RecentNotes(strategies),
                      normalized_case |-> None, rag_context |-> NoResult,
                      seen |-> <<>> ]

\* lines 573-577: the ingest stage is run on the validated case
CallIngest ==
    /\ scoring.pc = "ingest"
    /\ scoring' = [scoring EXCEPT
                     !.pc = "ingest_running",
                     !.seen = Append(@, StageInput("ingest",
                                 Dict([case |-> model_dump(SyntheticCase(scoring.case_id))]),
                                 NoResult, scoring.strategy_hints))]
    /\ UNCHANGED restOfScoring

\* lines 578-602: the ingest stage returned; the case row is inserted and the
\* retrieval context built
IngestReturns(normalized_case) ==
    /\ scoring.pc = "ingest_running"
    /\ normalized_case \in NormalizedCases(SyntheticCase(scoring.case_id), useBedrock)
    /\ \E case_embedding \in {embed_text(case_to_embedding_text(normalized_case))} :
       \E cases \in {Append(scoring.cases, CaseRow(scoring.case_id, Len(scoring.cases) + 1))} :
          scoring' = [scoring EXCEPT
                        !.pc = "branches",
                        !.normalized_case = normalized_case,
                        !.cases = cases,
                        !.rag_context = retrieve([scoring EXCEPT !.cases = cases],
                                                 scoring.case_id, normalized_case,
                                                 case_embedding, 0, "none")]
    /\ UNCHANGED restOfScoring

\* lines 605-622: genomics and epi_osint are run on the same arguments
CallBranches ==
    LET payload == Dict([ case |-> scoring.normalized_case,
                          ingest_output |-> IngestOutputDump(scoring.normalized_case) ])
    IN
    /\ scoring.pc = "branches"
    /\ scoring' = [scoring EXCEPT
                     !.pc = "meta",
                     !.seen = @ \o << StageInput("genomics", payload, scoring.rag_context,
                                                 scoring.strategy_hints),
                                      StageInput("epi_osint", payload, scoring.rag_context,
                                                 scoring.strategy_hints) >>]
    /\ UNCHANGED restOfScoring

\* lines 623-633: the meta stage is run on the case and the three outputs
CallMeta ==
    LET payload == Dict([ case |-> scoring.normalized_case,
                          ingest_output |-> IngestOutputDump(scoring.normalized_case),
                          genomics_output |-> GenomicsOutputDump,
                          epi_output |-> EpiOutputDump,
                          fusion_state |-> FusionStateDump ])
    IN
    /\ scoring.pc = "meta"
    /\ scoring' = [scoring EXCEPT
                     !.pc = "done",
                     !.seen = Append(@, StageInput("meta", payload, scoring.rag_context,
                                                   scoring.strategy_hints))]
    /\ UNCHANGED restOfScoring

NextCaseData ==
    \/ CallIngest
    \/ \E id \in CaseIds, bedrock \in BOOLEAN :
          \E normalized_case \in NormalizedCases(SyntheticCase(id), bedrock) :
             IngestReturns(normalized_case)
    \/ CallBranches
    \/ CallMeta

SpecCase == InitCase /\ [][NextCaseData]_vars

(***************************************************************************)
(* Reranker.rerank (rag/rerank.py:33-57) applied to candidate lists.       *)
(***************************************************************************)
MaxCandidates == 3

\* candidates as the searches build them: similarity and a payload of one
\* or two keys
Similarities == {3000, 5000}
Payloads == {Dict([run_id |-> Leaf(1)]), Dict([run_id |-> Leaf(1), case_id |-> Leaf(1)])}
Candidate(item_id, similarity, payload) ==
    Dict([item_id |-> Leaf(item_id), similarity |-> Leaf(similarity), payload |-> payload])
CandidateLists ==
    UNION {[1..n -> Similarities \X Payloads] : n \in 0..MaxCandidates}
Candidates(choice) ==
    [i \in DOMAIN choice |-> Candidate(i, choice[i][1], choice[i][2])]

\* top_k as retrieve passes it (k, never 0) and what the remote capability does
RerankTopKs == {1, 2}
RemoteResponses == RemoteOutcomes \cup {"out_of_range"}

InitRerank ==
    /\ useBedrock = FALSE
    /\ corpusLen = 0
    /\ strategyMemory = <<>>
    /\ runStatus = [r \in RunIds |-> NoStatus]
    /\ task = [r \in RunIds |-> IdleTask]
    /\ log = [r \in RunIds |-> <<>>]
    /\ call = NoCall
    /\ fusion = NoFusion
    /\ retriever = NoRetriever
    /\ scoring = NoScoring
    /\ embedding = NoEmbedding
    /\ dispatching = NoDispatching
    /\ desk = NoDesk
    /\ notebook = NoNotebook
    /\ ingesting = NoIngesting
    /\ scanning = NoScanning
    /\ guarding = NoGuarding
    /\ \E choice \in CandidateLists, top_k \in RerankTopKs,
          remote \in RemoteResponses \cup {"none"} :
          reranking = [ pc |-> "called", items |-> Candidates(choice), top_k |-> top_k,
                        remote |-> remote, raised |-> FALSE, result |-> <<>> ]

\* the call returns or raises
Rerank ==
    /\ reranking.pc = "called"
    /\ \E out \in {rerank_outcome(reranking.items, reranking.top_k, reranking.remote)} :
          reranking' = [reranking EXCEPT !.pc = "returned", !.raised = out.raised,
                                         !.result = out.value]
    /\ UNCHANGED restOfReranking

NextRerank == Rerank

SpecRerank == InitRerank /\ [][NextRerank]_vars

(***************************************************************************)
(* EmbeddingService.embed_text (rag/embed.py:25-63), local path.  A text   *)
(* is a sequence of pieces: lower-case tokens and the separator "|".       *)
(* Weights are in units of 1/255, returned components in units of 1e-4.    *)
(***************************************************************************)
MaxPieces == 2

\* Settings.embedding_dim
embedding_dim == 1024

Pieces == {"kenya", "nairobi", "none", "0", "promed", "|"}
Texts == UNION {[1..n -> Pieces] : n \in 0..MaxPieces}

\* re.findall(r"[a-z0-9_]+", text.lower())
RECURSIVE findall(_)
findall(text) ==
    IF Len(text) = 0 THEN <<>>
    ELSE (IF text[1] = "|" THEN <<>> ELSE <<text[1]>>) \o findall(Tail(text))

\* sha256 of the token: int(digest[:4]) % embedding_dim, digest[4] % 2, digest[5]
Digest(token) ==
    IF token = "kenya" THEN [idx |-> 584, odd |-> TRUE, byte5 |-> 69]
    ELSE IF token = "nairobi" THEN [idx |-> 885, odd |-> FALSE, byte5 |-> 166]
    ELSE IF token = "none" THEN [idx |-> 447, odd |-> FALSE, byte5 |-> 63]
    ELSE IF token = "0" THEN [idx |-> 870, odd |-> TRUE, byte5 |-> 200]
    ELSE [idx |-> 793, odd |-> FALSE, byte5 |-> 158]

\* lines 55-60: what the tokens add to component idx, sign * (1 + byte5 / 255)
RECURSIVE Accumulated(_, _)
Accumulated(tokens, idx) ==
    IF Len(tokens) = 0 THEN 0
    ELSE LET digest == Digest(tokens[1])
             weight == 255 + digest.byte5
         IN (IF digest.idx # idx THEN 0
             ELSE IF digest.odd THEN 0 - weight ELSE weight)
            + Accumulated(Tail(tokens), idx)

\* sum(v * v for v in vector), over components lo..hi
RECURSIVE SumSquares(_, _, _)
SumSquares(vector, lo, hi) ==
    IF lo > hi THEN 0
    ELSE IF lo = hi THEN vector[lo] * vector[lo]
    ELSE LET mid == (lo + hi) \div 2
         IN SumSquares(vector, lo, mid) + SumSquares(vector, mid + 1, hi)

\* the largest r in lo..hi with r * r <= n
RECURSIVE SqrtBetween(_, _, _)
SqrtBetween(n, lo, hi) ==
    IF lo >= hi THEN lo
    ELSE LET mid == (lo + hi + 1) \div 2
         IN IF mid * mid <= n THEN SqrtBetween(n, mid, hi) ELSE SqrtBetween(n, lo, mid - 1)

\* x / y to the nearest unit, x of either sign
Quotient(x, y) == IF x >= 0 THEN RoundDiv(x, y) ELSE 0 - RoundDiv(0 - x, y)

\* _embed_locally: norm10 is ten times the norm; a zero norm counts as 1.0
_embed_locally(text) ==
    LET tokens == findall(text)
        vector == [i \in 1..embedding_dim |-> Accumulated(tokens, i - 1)]
        norm10 == SqrtBetween(100 * SumSquares(vector, 1, embedding_dim), 0, 46340)
    IN IF norm10 = 0
       THEN [i \in 1..embedding_dim |-> vector[i] * 10000]
       ELSE [i \in 1..embedding_dim |-> Quotient(vector[i] * 100000, norm10)]

\* use_bedrock_embeddings is off, or the remote embedding raises
LocalPaths == {"no_client", "client_raises"}

InitEmbed ==
    /\ useBedrock = FALSE
    /\ corpusLen = 0
    /\ strategyMemory = <<>>
    /\ runStatus = [r \in RunIds |-> NoStatus]
    /\ task = [r \in RunIds |-> IdleTask]
    /\ log = [r \in RunIds |-> <<>>]
    /\ call = NoCall
    /\ fusion = NoFusion
    /\ retriever = NoRetriever
    /\ scoring = NoScoring
    /\ reranking = NoReranking
    /\ dispatching = NoDispatching
    /\ desk = NoDesk
    /\ notebook = NoNotebook
    /\ ingesting = NoIngesting
    /\ scanning = NoScanning
    /\ guarding = NoGuarding
    /\ \E text \in Texts :
          embedding = [ pc |-> "idle", text |-> text, calls |-> <<>> ]

\* embed_text, lines 26-31: with no client, or after the client raised, the
\* local embedding of the text is returned
EmbedText(path) ==
    /\ embedding.pc \in {"idle", "once"}
    /\ \E vector \in {_embed_locally(embedding.text)} :
          embedding' = [embedding EXCEPT
                          !.pc = IF @ = "idle" THEN "once" ELSE "twice",
                          !.calls = Append(@, [path |-> path, vector |-> vector])]
    /\ UNCHANGED restOfEmbedding

NextEmbed == \E path \in LocalPaths : EmbedText(path)

SpecEmbed == InitEmbed /\ [][NextEmbed]_vars

(***************************************************************************)
(* DispatchManager.dispatch_if_approved (dispatch/base.py:28-54).  A       *)
(* result dict is a record: keys is the set of its keys, and a field of a  *)
(* key that is absent holds what dict.get would return for it.             *)
(***************************************************************************)
ApprovalStatuses == {"pending", "approved", "rejected", "request_more_evidence", "not_required"}

\* what a channel does when called
ChannelOutcomes == {"ok", "raises"}

\* ElevenLabsStubProvider.send_briefing / EmailStubProvider.send_email results
NoChannelResult == [status |-> "none"]
ChannelResult(provider) == [status |-> "queued", provider |-> provider]

\* line 37
ApprovalRequired ==
    [ keys |-> {"dispatched", "reason"}, dispatched |-> FALSE, reason |-> "approval_required",
      partial |-> FALSE, errors |-> {}, voice |-> NoChannelResult, email |-> NoChannelResult ]

\* lines 49-54
Dispatched ==
    [ keys |-> {"dispatched", "dry_run", "voice", "email"}, dispatched |-> TRUE,
      reason |-> "none", partial |-> FALSE, errors |-> {},
      voice |-> ChannelResult("elevenlabs_stub"), email |-> ChannelResult("email_stub") ]

\* the whole call: the channels it invoked, and its result or the exception
\* that left it
dispatch_unguarded(approval_status, voice, email) ==
    IF voice = "raises"
    THEN [ raised |-> TRUE, result |-> ApprovalRequired, voice_calls |-> 1, email_calls |-> 0 ]
    ELSE IF email = "raises"
    THEN [ raised |-> TRUE, result |-> ApprovalRequired, voice_calls |-> 1, email_calls |-> 1 ]
    ELSE [ raised |-> FALSE, result |-> Dispatched, voice_calls |-> 1, email_calls |-> 1 ]
dispatch_if_approved(approval_status, voice, email) ==
    IF approval_status # "approved"
    THEN [ raised |-> FALSE, result |-> ApprovalRequired, voice_calls |-> 0, email_calls |-> 0 ]
    ELSE IF voice = "raises"
    THEN [ raised |-> TRUE, result |-> ApprovalRequired, voice_calls |-> 1, email_calls |-> 0 ]
    ELSE IF email = "raises"
    THEN [ raised |-> TRUE, result |-> ApprovalRequired, voice_calls |-> 1, email_calls |-> 1 ]
    ELSE [ raised |-> FALSE, result |-> Dispatched, voice_calls |-> 1, email_calls |-> 1 ]

InitDispatch ==
    /\ useBedrock = FALSE
    /\ corpusLen = 0
    /\ strategyMemory = <<>>
    /\ runStatus = [r \in RunIds |-> NoStatus]
    /\ task = [r \in RunIds |-> IdleTask]
    /\ log = [r \in RunIds |-> <<>>]
    /\ call = NoCall
    /\ fusion = NoFusion
    /\ retriever = NoRetriever
    /\ scoring = NoScoring
    /\ reranking = NoReranking
    /\ embedding = NoEmbedding
    /\ desk = NoDesk
    /\ notebook = NoNotebook
    /\ ingesting = NoIngesting
    /\ scanning = NoScanning
    /\ guarding = NoGuarding
    /\ \E approval_status \in ApprovalStatuses, case_id \in CaseIds, dry_run \in BOOLEAN :
          dispatching = [ pc |-> "called", approval_status |-> approval_status,
                          case_id |-> case_id, dry_run |-> dry_run,
                          voice |-> "none", email |-> "none", raised |-> FALSE,
                          result |-> ApprovalRequired, voice_calls |-> 0, email_calls |-> 0 ]

\* the call runs to its end against channels that answer or raise
Dispatch(voice, email) ==
    /\ dispatching.pc = "called"
    /\ \E out \in {dispatch_if_approved(dispatching.approval_status, voice, email)} :
          dispatching' = [dispatching EXCEPT
                            !.pc = "returned", !.voice = voice, !.email = email,
                            !.raised = out.raised, !.result = out.result,
                            !.voice_calls = out.voice_calls,
                            !.email_calls = out.email_calls]
    /\ UNCHANGED restOfDispatching

NextDispatch == \E voice \in ChannelOutcomes, email \in ChannelOutcomes : Dispatch(voice, email)

SpecDispatch == InitDispatch /\ [][NextDispatch]_vars

(***************************************************************************)
(* The review desk: SentinelService.apply_approval, execute_suggestion and *)
(* get_case_details (service.py:257-555) over the tables the run loop      *)
(* writes.  A table is the sequence of its rows in insertion order, so     *)
(* ORDER BY created_at DESC LIMIT 1 is the last matching row.  Run 1 is    *)
(* the older run, run 2 the newer one.                                     *)
(***************************************************************************)
\* the number of requests the desk serves
MaxRequests == 2

DeskRuns == {1, 2}
DeskCases == {1, 2}

\* a request that names no run
NoRunId == 0

ApprovalDecisions == {"approve", "reject", "request_more_evidence"}

_decision_to_status(decision) ==
    IF decision = "approve" THEN "approved"
    ELSE IF decision = "reject" THEN "rejected"
    ELSE "request_more_evidence"

\* WHERE case_id = ... [AND run_id = ...]
Where(rows, case_id, run_id) ==
    LET Match(row) == row.case_id = case_id /\ (run_id = NoRunId \/ row.run_id = run_id)
    IN  SelectSeq(rows, Match)

\* ... ORDER BY created_at DESC LIMIT 1, the run_id applied only when given
LatestRowAnyRun(rows, case_id, run_id) ==
    LET found == Where(rows, case_id, NoRunId)
    IN  IF Len(found) = 0 THEN <<>> ELSE <<found[Len(found)]>>
LatestRow(rows, case_id, run_id) ==
    LET found == Where(rows, case_id, run_id)
    IN  IF Len(found) = 0 THEN <<>> ELSE <<found[Len(found)]>>

\* ... ORDER BY timestamp DESC
Reversed(rows) == [i \in 1..Len(rows) |-> rows[Len(rows) + 1 - i]]

NoTables ==
    [ cases |-> <<>>, agent_outputs |-> <<>>, decisions |-> <<>>, approvals |-> <<>>,
      audit_logs |-> <<>>, suggestion_executions |-> <<>> ]

AuditRow(run_id, case_id, event_type) ==
    [run_id |-> run_id, case_id |-> case_id, event_type |-> event_type]

\* _insert_agent_outputs writes one row per agent
AgentNames == <<"ingest", "genomics", "epi_osint", "meta">>

\* how far _execute_run came with a case, and what it decided
Progress ==
    { [level |-> "none", eligible |-> 0, suggestion |-> ""],
      [level |-> "started", eligible |-> 0, suggestion |-> ""],
      [level |-> "decided", eligible |-> 0, suggestion |-> "isolate"],
      [level |-> "decided", eligible |-> 1, suggestion |-> "isolate"],
      [level |-> "decided", eligible |-> 1, suggestion |-> ""] }

\* the rows one iteration of the case loop leaves (service.py:561-693)
ProcessCase(t, run_id, case_id, h) ==
    IF h.level = "none" THEN t
    ELSE LET started ==
                 [t EXCEPT
                    !.audit_logs = t.audit_logs
                        \o << AuditRow(run_id, case_id, "case_processing_started"),
                              AuditRow(run_id, case_id, "rag_context_built") >>,
                    !.cases = Append(t.cases, [case_id |-> case_id, run_id |-> run_id])]
         IN IF h.level = "started" THEN started
            ELSE [started EXCEPT
                    !.agent_outputs = started.agent_outputs
                        \o [i \in 1..Len(AgentNames) |->
                              [case_id |-> case_id, run_id |-> run_id,
                               agent_name |-> AgentNames[i]]],
                    !.decisions = Append(started.decisions,
                                     [ run_id |-> run_id, case_id |-> case_id,
                                       eligible_for_review |-> h.eligible,
                                       suggestion |-> h.suggestion ]),
                    !.approvals = Append(started.approvals,
                                     [ case_id |-> case_id, run_id |-> run_id,
                                       status |-> IF h.eligible = 1 THEN "pending"
                                                  ELSE "not_required",
                                       reviewer_name |-> "none",
                                       dispatch |-> "approval_required" ])]

NoDetails ==
    [ case |-> <<>>, decision |-> <<>>, agent_outputs |-> <<>>, approvals |-> <<>>,
      audit_trail |-> <<>> ]

\* the request served last and its response
Served(op, case_id, run_id, decision, code) ==
    [ op |-> op, case_id |-> case_id, run_id |-> run_id, decision |-> decision,
      code |-> code, selected_run_id |-> NoRunId, voice_calls |-> 0, email_calls |-> 0,
      details |-> NoDetails ]

\* the payload of a dispatch that raised is not replaced
DispatchJsonUncaught(out) ==
    IF out.result.dispatched THEN "dispatched" ELSE out.result.reason
\* json.dumps(dispatch_payload): what the stored payload says
DispatchJson(out) ==
    IF out.raised THEN "dispatch_error"
    ELSE IF out.result.dispatched THEN "dispatched" ELSE out.result.reason

apply_approval_unchecked(d, case_id, approval, voice, email) ==
    LET decision_rows == LatestRow(d.tables.decisions, case_id, approval.run_id)
        served == Served("apply_approval", case_id, approval.run_id, approval.decision, 200)
    IN  IF Len(decision_rows) = 0
        THEN [d EXCEPT !.last = [served EXCEPT !.code = 404]]
        ELSE LET decision_row == decision_rows[1]
                 run_id == decision_row.run_id
                 status == _decision_to_status(approval.decision)
                 out == dispatch_if_approved(status, voice, email)
             IN [d EXCEPT
                   !.tables.approvals = Append(d.tables.approvals,
                        [ case_id |-> case_id, run_id |-> run_id, status |-> status,
                          reviewer_name |-> "reviewer",
                          dispatch |-> IF status = "approved" THEN DispatchJson(out)
                                       ELSE "not_approved" ]),
                   !.tables.audit_logs = Append(d.tables.audit_logs,
                        AuditRow(run_id, case_id, "approval_updated")),
                   !.last = [served EXCEPT
                               !.selected_run_id = run_id,
                               !.voice_calls = out.voice_calls,
                               !.email_calls = out.email_calls]]
apply_approval(d, case_id, approval, voice, email) ==
    LET decision_rows == LatestRow(d.tables.decisions, case_id, approval.run_id)
        served == Served("apply_approval", case_id, approval.run_id, approval.decision, 200)
    IN  IF Len(decision_rows) = 0
        THEN [d EXCEPT !.last = [served EXCEPT !.code = 404]]
        ELSE LET decision_row == decision_rows[1]
                 run_id == decision_row.run_id
                 eligible == decision_row.eligible_for_review # 0
                 status == _decision_to_status(approval.decision)
                 out == dispatch_if_approved(status, voice, email)
             IN IF approval.decision = "approve" /\ ~eligible
                THEN [d EXCEPT !.last = [served EXCEPT !.code = 400,
                                                       !.selected_run_id = run_id]]
                ELSE [d EXCEPT
                        !.tables.approvals = Append(d.tables.approvals,
                             [ case_id |-> case_id, run_id |-> run_id, status |-> status,
                               reviewer_name |-> "reviewer",
                               dispatch |-> IF status = "approved" THEN DispatchJson(out)
                                            ELSE "not_approved" ]),
                        !.tables.audit_logs = Append(d.tables.audit_logs,
                             AuditRow(run_id, case_id, "approval_updated")),
                        !.last = [served EXCEPT
                                    !.selected_run_id = run_id,
                                    !.voice_calls = out.voice_calls,
                                    !.email_calls = out.email_calls]]

execute_suggestion(d, case_id, request, voice, email) ==
    LET decision_rows == LatestRow(d.tables.decisions, case_id, request.run_id)
        served == Served("execute_suggestion", case_id, request.run_id, "none", 200)
    IN  IF Len(decision_rows) = 0
        THEN [d EXCEPT !.last = [served EXCEPT !.code = 404]]
        ELSE LET decision_row == decision_rows[1]
                 run_id == decision_row.run_id
                 suggestion == decision_row.suggestion
                 out == dispatch_if_approved("approved", voice, email)
             IN IF suggestion = ""
                THEN [d EXCEPT !.last = [served EXCEPT !.code = 400,
                                                       !.selected_run_id = run_id]]
                ELSE [d EXCEPT
                        !.tables.suggestion_executions =
                             Append(d.tables.suggestion_executions,
                                    [ case_id |-> case_id, run_id |-> run_id,
                                      suggestion |-> suggestion,
                                      dispatch |-> DispatchJson(out) ]),
                        !.tables.audit_logs = Append(d.tables.audit_logs,
                             AuditRow(run_id, case_id, "suggestion_executed")),
                        !.last = [served EXCEPT
                                    !.selected_run_id = run_id,
                                    !.voice_calls = out.voice_calls,
                                    !.email_calls = out.email_calls]]

get_case_details(d, case_id, run_id) ==
    LET case_rows == LatestRow(d.tables.cases, case_id, run_id)
        served == Served("get_case_details", case_id, run_id, "none", 200)
    IN  IF Len(case_rows) = 0
        THEN [d EXCEPT !.last = [served EXCEPT !.code = 404]]
        ELSE LET selected_run_id == case_rows[1].run_id
             IN [d EXCEPT !.last = [served EXCEPT
                    !.selected_run_id = selected_run_id,
                    !.details =
                       [ case |-> case_rows,
                         decision |-> LatestRow(d.tables.decisions, case_id, selected_run_id),
                         agent_outputs |-> Where(d.tables.agent_outputs, case_id, selected_run_id),
                         approvals |-> Reversed(Where(d.tables.approvals, case_id, selected_run_id)),
                         audit_trail |-> Reversed(Where(d.tables.audit_logs, case_id, selected_run_id)) ]]]

InitDesk ==
    /\ useBedrock = FALSE
    /\ corpusLen = 0
    /\ strategyMemory = <<>>
    /\ runStatus = [r \in RunIds |-> NoStatus]
    /\ task = [r \in RunIds |-> IdleTask]
    /\ log = [r \in RunIds |-> <<>>]
    /\ call = NoCall
    /\ fusion = NoFusion
    /\ retriever = NoRetriever
    /\ scoring = NoScoring
    /\ reranking = NoReranking
    /\ embedding = NoEmbedding
    /\ dispatching = NoDispatching
    /\ notebook = NoNotebook
    /\ ingesting = NoIngesting
    /\ scanning = NoScanning
    /\ guarding = NoGuarding
    /\ \E old \in Progress, new \in Progress, other \in {h \in Progress : h.eligible = 1} :
          desk = [ requests |-> 0,
                   tables |-> ProcessCase(ProcessCase(ProcessCase(NoTables, 1, 1, old),
                                                      2, 1, new), 2, 2, other),
                   last |-> Served("none", 0, NoRunId, "none", 0) ]

ApplyApproval(case_id, run_id, decision, voice, email) ==
    /\ desk.requests \in 0..(MaxRequests - 1)
    /\ \E d \in {apply_approval(desk, case_id, [decision |-> decision, run_id |-> run_id],
                                voice, email)} :
          desk' = [d EXCEPT !.requests = desk.requests + 1]
    /\ UNCHANGED restOfDesk

ExecuteSuggestion(case_id, run_id, voice, email) ==
    /\ desk.requests \in 0..(MaxRequests - 1)
    /\ \E d \in {execute_suggestion(desk, case_id, [run_id |-> run_id], voice, email)} :
          desk' = [d EXCEPT !.requests = desk.requests + 1]
    /\ UNCHANGED restOfDesk

GetCaseDetails(case_id, run_id) ==
    /\ desk.requests \in 0..(MaxRequests - 1)
    /\ \E d \in {get_case_details(desk, case_id, run_id)} :
          desk' = [d EXCEPT !.requests = desk.requests + 1]
    /\ UNCHANGED restOfDesk

NextDesk ==
    \E case_id \in DeskCases, run_id \in DeskRuns \cup {NoRunId} :
        \/ \E decision \in ApprovalDecisions, voice \in ChannelOutcomes, email \in ChannelOutcomes :
              ApplyApproval(case_id, run_id, decision, voice, email)
        \/ \E voice \in ChannelOutcomes, email \in ChannelOutcomes :
              ExecuteSuggestion(case_id, run_id, voice, email)
        \/ GetCaseDetails(case_id, run_id)

SpecDesk == InitDesk /\ [][NextDesk]_vars

(***************************************************************************)
(* SentinelService.close (service.py:78-82): the orchestrator with the     *)
(* shutdown handler.  close runs on the event loop, so every run task that *)
(* is not done is suspended at an await: not yet started, awaiting gather, *)
(* or, with a capability, awaiting the ingest or the meta stage.           *)
(***************************************************************************)
Suspended(t) ==
    \/ t.pc \in {"created", "join"}
    \/ useBedrock /\ t.pc \in {"ingest", "meta"}

\* the task after task.cancel(): CancelledError is thrown into it at its await
\* and, not being an Exception, passes the except block of _execute_run;
\* cancelling the await of gather cancels its children
CancelledCaught(t) == Raise(t, "cancelled")
Cancelled(t) ==
    [t EXCEPT !.pc = "cancelled", !.exc = "cancelled",
              !.genomics = IF @ \in {"pending", "running"} THEN "cancelled" ELSE @,
              !.epi_osint = IF @ \in {"pending", "running"} THEN "cancelled" ELSE @]

Close ==
    /\ \E r \in RunIds : Suspended(task[r])
    /\ task' = [r \in RunIds |-> IF Suspended(task[r]) THEN Cancelled(task[r]) ELSE task[r]]
    /\ UNCHANGED <<useBedrock, corpusLen, strategyMemory, runStatus, log>>

NextClose ==
    \/ Next
    \/ Close /\ UNCHANGED unitVars

SpecClose == Init /\ [][NextClose]_vars

(***************************************************************************)
(* Two runs in flight: start_run called twice on one service.  Each call   *)
(* of _execute_run holds fusion_state and strategy_hints as locals of its  *)
(* own coroutine (service.py:557-559); the runs share the strategy_memory  *)
(* table and the _run_status dict, keyed by run_id.  No insert raises.     *)
(***************************************************************************)
PairRuns == {1, 2}

InitPair ==
    /\ useBedrock \in BOOLEAN
    /\ corpusLen \in {0, MaxCorpus}
    /\ strategyMemory \in {<<>>} \cup {<<row>> : row \in MemoryRows}
    /\ runStatus = [r \in PairRuns |-> NoStatus]
    /\ task = [r \in PairRuns |-> IdleTask]
    /\ log = [r \in PairRuns |-> <<>>]
    /\ call = NoCall
    /\ fusion = NoFusion
    /\ retriever = NoRetriever
    /\ scoring = NoScoring
    /\ reranking = NoReranking
    /\ embedding = NoEmbedding
    /\ dispatching = NoDispatching
    /\ desk = NoDesk
    /\ notebook = NoNotebook
    /\ ingesting = NoIngesting
    /\ scanning = NoScanning
    /\ guarding = NoGuarding

NextPair ==
    \/ \E r \in PairRuns : StartRun(r, MaxCorpus, 0) /\ UNCHANGED unitVars
    \/ \E r \in PairRuns : BeginRun(r, 0) /\ UNCHANGED unitVars
    \/ \E r \in PairRuns : NextCase(r, 0) /\ UNCHANGED unitVars
    \/ \E r \in PairRuns, reply \in AnyReply : IngestDone(r, reply, 0) /\ UNCHANGED unitVars
    \/ \E r \in PairRuns, b \in Branches : BranchStart(r, b) /\ UNCHANGED unitVars
    \/ \E r \in PairRuns, b \in Branches, reply \in AnyReply : BranchEnd(r, b, reply) /\ UNCHANGED unitVars
    \/ \E r \in PairRuns : Join(r) /\ UNCHANGED unitVars
    \/ \E r \in PairRuns, reply \in AnyReply : MetaDone(r, reply, 0) /\ UNCHANGED unitVars
    \/ \E r \in PairRuns : FinishRun(r, 0) /\ UNCHANGED unitVars
    \/ \E r \in PairRuns : HandleFailure(r, 0) /\ UNCHANGED unitVars

SpecPair == InitPair /\ [][NextPair]_vars

(***************************************************************************)
(* The strategy hints of one run (service.py:559, 573-633, 778-799): the   *)
(* buffer loaded when the run starts, handed to the four stages of every   *)
(* case, and renewed after the case.  The strategy_memory rows are those   *)
(* this program writes, newest first: build_strategy_update never returns  *)
(* a blank note.                                                           *)
(***************************************************************************)
\* rows in strategy_memory when the run starts
MaxStored == 6

\* cases the run goes through
MaxOwnCases == 2

\* notes build_strategy_update can return: 10 * rule + dominant signal
NoteTexts == {11, 22, 33}

StoredNotes == UNION {[1..n -> NoteTexts] : n \in 0..MaxStored}

\* strategy_hints = [strategy_note, *strategy_hints][:5]
push_hint_uncut(strategy_note, strategy_hints) == <<strategy_note>> \o strategy_hints
push_hint(strategy_note, strategy_hints) ==
    SubSeq(<<strategy_note>> \o strategy_hints, 1, Min(5, Len(strategy_hints) + 1))

\* the stage has not been called in this case
NotCalled == <<0>>

NothingSeen == [st \in Stages |-> NotCalled]

InitHints ==
    /\ useBedrock = FALSE
    /\ corpusLen = 0
    /\ strategyMemory = <<>>
    /\ runStatus = [r \in RunIds |-> NoStatus]
    /\ task = [r \in RunIds |-> IdleTask]
    /\ log = [r \in RunIds |-> <<>>]
    /\ call = NoCall
    /\ fusion = NoFusion
    /\ retriever = NoRetriever
    /\ scoring = NoScoring
    /\ reranking = NoReranking
    /\ embedding = NoEmbedding
    /\ dispatching = NoDispatching
    /\ desk = NoDesk
    /\ ingesting = NoIngesting
    /\ scanning = NoScanning
    /\ guarding = NoGuarding
    /\ \E stored \in StoredNotes :
          notebook = [ pc |-> "created", idx |-> 0,
                       stored |-> [i \in 1..Len(stored) |-> [note |-> stored[i]]],
                       loaded |-> <<>>, strategy_hints |-> <<>>, own |-> <<>>,
                       seen |-> NothingSeen ]

\* line 559
LoadHints ==
    /\ notebook.pc = "created"
    /\ \E hints \in {_load_recent_strategy_notes(notebook.stored)} :
          notebook' = [notebook EXCEPT !.pc = "ingest", !.idx = 1,
                                       !.loaded = hints, !.strategy_hints = hints]
    /\ UNCHANGED restOfNotebook

\* lines 573-577
HintIngest ==
    /\ notebook.pc = "ingest"
    /\ notebook' = [notebook EXCEPT !.pc = "gather",
                       !.seen = [NothingSeen EXCEPT !["ingest"] = notebook.strategy_hints]]
    /\ UNCHANGED restOfNotebook

\* lines 605-622
HintBranches ==
    /\ notebook.pc = "gather"
    /\ notebook' = [notebook EXCEPT !.pc = "meta",
                       !.seen["genomics"] = notebook.strategy_hints,
                       !.seen["epi_osint"] = notebook.strategy_hints]
    /\ UNCHANGED restOfNotebook

\* lines 623-633
HintMeta ==
    /\ notebook.pc = "meta"
    /\ notebook' = [notebook EXCEPT !.pc = "tail",
                       !.seen["meta"] = notebook.strategy_hints]
    /\ UNCHANGED restOfNotebook

\* lines 719-779: the note of the case is persisted and put in front
HintCaseEnd(strategy_note) ==
    /\ notebook.pc = "tail"
    /\ notebook' = [notebook EXCEPT
                       !.pc = IF notebook.idx < MaxOwnCases THEN "ingest" ELSE "done",
                       !.idx = notebook.idx + 1,
                       !.stored = <<[note |-> strategy_note]>> \o notebook.stored,
                       !.own = Append(notebook.own, strategy_note),
                       !.strategy_hints = push_hint(strategy_note, notebook.strategy_hints)]
    /\ UNCHANGED restOfNotebook

NextHints ==
    \/ LoadHints
    \/ HintIngest
    \/ HintBranches
    \/ HintMeta
    \/ \E strategy_note \in NoteTexts : HintCaseEnd(strategy_note)

SpecHints == InitHints /\ [][NextHints]_vars

(***************************************************************************)
(* IngestAgent.local_fallback (agents/ingest.py:18-76) called twice on one *)
(* payload.  Inputs in hundredths, credibility_score, score and confidence *)
(* in thousandths, as IngestFallback computes them.                        *)
(***************************************************************************)
\* news snippets of the payload
MaxSnippets == 6

\* the scenario of the specification: genomic, geo and anomaly features as
\* given there, with the reliability hint, the number of distinct source
\* types and the number of news snippets of the payload
ScenarioCase(reliability_hint, n_source_types, n_news_snippets) ==
    [ case_id            |-> 1,
      date               |-> 1,
      mutation_novelty   |-> 40,
      lineage_deviation  |-> 50,
      recombination_flag |-> FALSE,
      n_source_types     |-> n_source_types,
      n_news_snippets    |-> n_news_snippets,
      anomaly_score      |-> 55,
      reliability_hint   |-> reliability_hint,
      travel_hub_score   |-> 60,
      population_density_score |-> 75,
      border_connectivity |-> 40,
      true_outbreak      |-> TRUE,
      true_severity      |-> 8000 ]

ReliabilityHints == {0, 50, 70, 100}

InitIngest ==
    /\ useBedrock = FALSE
    /\ corpusLen = 0
    /\ strategyMemory = <<>>
    /\ runStatus = [r \in RunIds |-> NoStatus]
    /\ task = [r \in RunIds |-> IdleTask]
    /\ log = [r \in RunIds |-> <<>>]
    /\ call = NoCall
    /\ fusion = NoFusion
    /\ retriever = NoRetriever
    /\ scoring = NoScoring
    /\ reranking = NoReranking
    /\ embedding = NoEmbedding
    /\ dispatching = NoDispatching
    /\ desk = NoDesk
    /\ notebook = NoNotebook
    /\ scanning = NoScanning
    /\ guarding = NoGuarding
    /\ \E reliability_hint \in ReliabilityHints, n_source_types \in 0..5,
          n_news_snippets \in 0..MaxSnippets :
          ingesting = [ pc |-> "called",
                        case |-> ScenarioCase(reliability_hint, n_source_types,
                                              n_news_snippets),
                        outputs |-> <<>> ]

\* one call of local_fallback on the payload
IngestLocalFallback ==
    /\ ingesting.pc = "called"
    /\ Len(ingesting.outputs) < 2
    /\ ingesting' = [ingesting EXCEPT
                        !.outputs = Append(@, IngestFallback(ingesting.case))]
    /\ UNCHANGED restOfIngesting

NextIngest == IngestLocalFallback

SpecIngest == InitIngest /\ [][NextIngest]_vars

(***************************************************************************)
(* Retriever.retrieve over an in-memory index of many items                *)
(* (rag/retrieve.py:41-64, 189-209; rag/index.py:38-44).  The index is     *)
(* built from the whole corpus, which data/combine.py sorts by date.       *)
(***************************************************************************)
\* cases of the corpus
MaxIndex == 14

DatePatterns == {"rising", "same_day"}

\* case id of the corpus: dated in the order of the ids, or all on one day
ScanCase(id, pattern) ==
    Dict([SyntheticCase(id).items EXCEPT
            !["date"] = Leaf(IF pattern = "rising" THEN 10 * id ELSE 20)])

ScanTopKs == {1, 2}

InitScan ==
    /\ useBedrock = FALSE
    /\ corpusLen = 0
    /\ strategyMemory = <<>>
    /\ runStatus = [r \in RunIds |-> NoStatus]
    /\ task = [r \in RunIds |-> IdleTask]
    /\ log = [r \in RunIds |-> <<>>]
    /\ call = NoCall
    /\ fusion = NoFusion
    /\ retriever = NoRetriever
    /\ scoring = NoScoring
    /\ reranking = NoReranking
    /\ embedding = NoEmbedding
    /\ dispatching = NoDispatching
    /\ desk = NoDesk
    /\ notebook = NoNotebook
    /\ ingesting = NoIngesting
    /\ guarding = NoGuarding
    /\ \E n \in 1..MaxIndex, pattern \in DatePatterns :
       \E case_id \in 1..Min(n, 5), top_k \in ScanTopKs :
          scanning = [ pc |-> "built", pattern |-> pattern, case_id |-> case_id,
                       top_k |-> top_k,
                       index |-> [i \in 1..n |-> IndexedItem(ScanCase(i, pattern))],
                       cases |-> <<>>, strategy_memory |-> <<>>,
                       past_outbreak_cases |-> <<>> ]

\* _execute_run, lines 578-594, for one case of the corpus
ScanRetrieve ==
    /\ scanning.pc = "built"
    /\ \E normalized_case \in {NormalizedCase(ScanCase(scanning.case_id, scanning.pattern))} :
       \E case_embedding \in {embed_text(case_to_embedding_text(normalized_case))} :
       \E result \in {retrieve(scanning, scanning.case_id, normalized_case, case_embedding,
                               scanning.top_k, "none")} :
          scanning' = [scanning EXCEPT !.pc = "retrieved",
                          !.past_outbreak_cases = result.past_outbreak_cases]
    /\ UNCHANGED restOfScanning

NextScan == ScanRetrieve

SpecScan == InitScan /\ [][NextScan]_vars

(***************************************************************************)
(* SpecGuard: the meta stage, the guardrail and the fusion update of       *)
(* _execute_run (service.py:623-709) followed for two runs over the same   *)
(* cases whose fusion states differ in the threshold only.                 *)
(***************************************************************************)
MaxGuardCases == 2

\* thresholds a stored FusionState can hold (update.py:49)
GuardThresholds == {400, 700, 850}

\* what the earlier stages hand to the meta stage for one case, with the
\* case's ground truth
GuardInputs ==
    {[ ingest |-> [confidence |-> 700],
       genomics |-> [genomics_score |-> gs, confidence |-> 800],
       epi |-> [epi_score |-> 7000, geo_score |-> 6000, confidence |-> 700],
       true_outbreak |-> truth, true_severity |-> IF truth THEN 8000 ELSE 1000 ] :
       gs \in {6000, 8000}, truth \in BOOLEAN}

\* _build_prompt (base.py:66-80) for the meta stage: the payload of
\* service.py:624-630 is printed whole, fusion_state.model_dump() included
MetaPrompt(in, fusion_state) ==
    [ ingest_output |-> in.ingest, genomics_output |-> in.genomics, epi_output |-> in.epi,
      fusion_state |-> fusion_state ]

\* a scoring capability answers a prompt by what the prompt says; the ones
\* followed here read at most the threshold printed in it
Scorers ==
    {[cut |-> 700, below |-> lo, above |-> hi] :
        lo \in CapabilityOutputs("meta"), hi \in CapabilityOutputs("meta")}

NoScorer == [cut |-> 0]

Answer(scorer, prompt) ==
    IF prompt.fusion_state.threshold <= scorer.cut THEN scorer.below ELSE scorer.above

\* meta_agent.run, lines 623-633
MetaOutputOf(in, fusion_state, scorer) ==
    IF scorer = NoScorer
    THEN MetaFallback(in.ingest, in.genomics, in.epi, fusion_state)
    ELSE Answer(scorer, MetaPrompt(in, fusion_state))

\* lines 679-680
initial_status(eligible) == IF eligible THEN "pending" ELSE "not_required"

\* one run's side of a case: lines 635-638, 679-680 and 702-709
GuardStep(run, in, scorer) ==
    LET meta_output == MetaOutputOf(in, run.fusion_state, scorer)
        eligible == Eligible(meta_output.severity, meta_output.confidence_pct)
    IN [ fusion_state |->
            update_fusion_state(run.fusion_state, in.genomics.genomics_score,
                                in.epi.epi_score, in.epi.geo_score, meta_output.severity,
                                meta_output.confidence_pct, in.true_outbreak,
                                in.true_severity),
         eligible |-> Append(run.eligible, eligible),
         approvals |-> Append(run.approvals, initial_status(eligible)),
         thresholds |-> Append(run.thresholds, run.fusion_state.threshold) ]

GuardRun(threshold) ==
    [ fusion_state |-> [default_fusion_state EXCEPT !.threshold = threshold],
      eligible |-> <<>>, approvals |-> <<>>, thresholds |-> <<>> ]

InitGuard ==
    /\ useBedrock \in BOOLEAN
    /\ corpusLen = 0
    /\ strategyMemory = <<>>
    /\ runStatus = [r \in RunIds |-> NoStatus]
    /\ task = [r \in RunIds |-> IdleTask]
    /\ log = [r \in RunIds |-> <<>>]
    /\ call = NoCall
    /\ fusion = NoFusion
    /\ retriever = NoRetriever
    /\ scoring = NoScoring
    /\ reranking = NoReranking
    /\ embedding = NoEmbedding
    /\ dispatching = NoDispatching
    /\ desk = NoDesk
    /\ notebook = NoNotebook
    /\ ingesting = NoIngesting
    /\ scanning = NoScanning
    /\ \E ta \in GuardThresholds, tb \in GuardThresholds :
       \E scorer \in IF useBedrock THEN Scorers ELSE {NoScorer} :
          /\ ta < tb
          /\ guarding = [ n |-> 0, scorer |-> scorer, a |-> GuardRun(ta), b |-> GuardRun(tb) ]

\* the same case goes through both runs
GuardCase(in) ==
    /\ guarding.n >= 0 /\ guarding.n < MaxGuardCases
    /\ guarding' = [guarding EXCEPT !.n = @ + 1,
                                    !.a = GuardStep(@, in, guarding.scorer),
                                    !.b = GuardStep(@, in, guarding.scorer)]
    /\ UNCHANGED restOfGuarding

NextGuard == \E in \in GuardInputs : GuardCase(in)

SpecGuard == InitGuard /\ [][NextGuard]_vars

(***************************************************************************)
(* Properties                                                              *)
(***************************************************************************)
Positions(r) == DOMAIN log[r]

IsPrefix(a, b) == Len(a) <= Len(b) /\ SubSeq(b, 1, Len(a)) = a

IsStatusWrite(e) == e.kind \in {"mem", "runs"}

Terminal == {"completed", "failed"}

\* the task is over: it returned, or an exception escaped it
Over(r) == task[r].pc \in {"done", "crashed"}

\* an exception was raised while iteration idx of the loop was running
FailedInCase(r) == task[r].exc # "none" /\ task[r].idx \in 1..task[r].total

Has(r, kind, case) == \E i \in Positions(r) : log[r][i].kind = kind /\ log[r][i].case = case

HasTag(r, kind, case, tag) ==
    \E i \in Positions(r) : log[r][i].kind = kind /\ log[r][i].case = case /\ log[r][i].tag = tag

\* C1: for every run, once a status write (to _run_status or to the runs
\* table) carries completed or failed, every later status write of that run
\* carries the same status.
C1_TerminalStatusImmutable ==
    \A r \in RunIds : \A i, j \in Positions(r) :
        ( /\ i < j
          /\ IsStatusWrite(log[r][i]) /\ IsStatusWrite(log[r][j])
          /\ log[r][i].tag \in Terminal )
        => log[r][j].tag = log[r][i].tag

\* C2: whenever an exception ended a run's execution, the run's in-memory
\* status is failed with the exception text as error, and a failed run event
\* with that error was persisted.
C2_FailureRecorded ==
    \A r \in RunIds :
        (Over(r) /\ task[r].exc # "none")
        => /\ runStatus[r].status = "failed"
           /\ runStatus[r].error = task[r].exc
           /\ \E i \in Positions(r) :
                 /\ log[r][i].kind = "runs" /\ log[r][i].tag = "failed"
                 /\ log[r][i].err = task[r].exc

IsStage(e, case, tag) == e.kind = "stage" /\ e.case = case /\ e.tag = tag

\* in the run's writes, every stage event tagB of a case comes after a stage
\* event tagA of the same case
Precedes(r, tagA, tagB) ==
    \A p \in Positions(r) :
        (log[r][p].kind = "stage" /\ log[r][p].tag = tagB)
        => \E q \in 1..(p - 1) : IsStage(log[r][q], log[r][p].case, tagA)

FusionPart(e) == SubSeq(e.data, 1, 4)

\* the run has not yet added a row to strategy_memory
MemoryAsLoaded(r) == \A p \in Positions(r) : log[r][p].kind # "strategy_memory"

\* the persisted row holds a whole, valid fusion state
RowValid(row) ==
    /\ row.weights_ok
    /\ row.w_genomics > 0 /\ row.w_epi > 0 /\ row.w_geo > 0
    /\ row.threshold >= 400 /\ row.threshold <= 850

RowTuple(row) == <<row.w_genomics, row.w_epi, row.w_geo, row.threshold>>

\* the meta stage of case j >= 2 gets the state the update after case j - 1
\* returned (the one persisted in that case's strategy_memory row)
CarriedForward(r) ==
    \A p \in Positions(r) :
        (log[r][p].kind = "stage" /\ log[r][p].tag = "meta_start" /\ log[r][p].case >= 2)
        => \E q \in 1..(p - 1) :
              /\ log[r][q].kind = "strategy_memory"
              /\ log[r][q].case = log[r][p].case - 1
              /\ SubSeq(log[r][q].data, 1, 4) = FusionPart(log[r][p])

C6_StageOrder ==
    \A r \in RunIds :
        /\ Precedes(r, "ingest_done", "retrieve_done")
        /\ Precedes(r, "ingest_done", "genomics_start")
        /\ Precedes(r, "ingest_done", "epi_osint_start")
        /\ Precedes(r, "retrieve_done", "genomics_start")
        /\ Precedes(r, "retrieve_done", "epi_osint_start")
        /\ \A p \in Positions(r) :
              (log[r][p].kind = "stage" /\ log[r][p].tag = "meta_start")
              => \E g, e \in 1..(p - 1) :
                    /\ IsStage(log[r][g], log[r][p].case, "genomics_done")
                    /\ IsStage(log[r][e], log[r][p].case, "epi_osint_done")
                    /\ SubSeq(log[r][p].data, 5, 7) = log[r][g].data \o log[r][e].data

\* with a scoring capability configured (the two branches really overlap),
\* the meta stage of a case has started
C6_Witness ==
    \E r \in RunIds :
        /\ useBedrock
        /\ HasTag(r, "stage", 1, "meta_start")
        /\ HasTag(r, "stage", 1, "genomics_done")
        /\ HasTag(r, "stage", 1, "epi_osint_done")

BranchRaised(e) == e.kind = "stage" /\ e.tag \in {"genomics_raised", "epi_osint_raised"}

\* C7: when the genomics or the epi_osint stage of a case fails, the meta
\* stage is never run for that case, no agent-output, decision, approval or
\* strategy-memory row is written for it, the run goes no further than that
\* case, and once the run's task is over its status is failed.
C7_FailedBranchFailsJoin ==
    \A r \in RunIds : \A p \in Positions(r) :
        BranchRaised(log[r][p])
        => LET c == log[r][p].case IN
           /\ ~HasTag(r, "stage", c, "meta_start")
           /\ ~Has(r, "agent_outputs", c) /\ ~Has(r, "decisions", c)
           /\ ~Has(r, "approvals", c) /\ ~Has(r, "strategy_memory", c)
           /\ task[r].idx = c
           /\ task[r].pc \in {"join", "except", "done", "crashed"}
           /\ Over(r) => runStatus[r].status = "failed"

\* the epi_osint stage of a case failed after genomics had succeeded, and the
\* run ended failed without a meta stage
C7_Witness ==
    \E r \in RunIds :
        /\ HasTag(r, "stage", 1, "epi_osint_raised")
        /\ HasTag(r, "stage", 1, "genomics_done")
        /\ task[r].pc = "done" /\ runStatus[r].status = "failed"
        /\ ~HasTag(r, "stage", 1, "meta_start")

\* C8: every case whose meta stage has returned (no insert having failed) has
\* a decision whose eligibility flag is 1 exactly when severity >= 7.0 and
\* confidence_pct >= 60.0, and an approval whose status is pending exactly
\* when the case is eligible and not_required otherwise.
C8_EligibilityStored ==
    \A r \in RunIds : \A p \in Positions(r) :
        ( /\ log[r][p].kind = "stage" /\ log[r][p].tag = "meta_done"
          /\ task[r].exc # "persistence_error" )
        => LET c == log[r][p].case
               eligible == /\ log[r][p].data[1] >= guardrail_severity_threshold
                           /\ log[r][p].data[2] >= guardrail_confidence_threshold_pct
           IN /\ \E q \in Positions(r) :
                    /\ log[r][q].kind = "decisions" /\ log[r][q].case = c
                    /\ log[r][q].data[1] = (IF eligible THEN 1 ELSE 0)
              /\ HasTag(r, "approvals", c, IF eligible THEN "pending" ELSE "not_required")

\* cases of the run whose persistence went through to the last insert
FullyProcessed(r) ==
    {c \in 1..task[r].total : HasTag(r, "audit_logs", c, "strategy_memory_updated")}

\* processed counts of the persisted run events, in the order written
RECURSIVE ProcessedOf(_)
ProcessedOf(evs) ==
    IF evs = <<>> THEN <<>>
    ELSE IF evs[1].kind = "runs" THEN <<evs[1].data[1]>> \o ProcessedOf(Tail(evs))
         ELSE ProcessedOf(Tail(evs))

MetricsRows(r) == {p \in Positions(r) : log[r][p].kind = "metrics"}

\* C10: metrics are persisted once and only on normal completion: a run that
\* ended completed has exactly one metrics row, computed over all its
\* processed cases, and a run that ended failed has none.
C10_MetricsOnlyOnCompletion ==
    \A r \in RunIds :
        /\ Cardinality(MetricsRows(r)) <= 1
        /\ (Over(r) /\ runStatus[r].status = "completed")
           => /\ Cardinality(MetricsRows(r)) = 1
              /\ \A p \in MetricsRows(r) : Len(log[r][p].data) = runStatus[r].processed
        /\ (Over(r) /\ runStatus[r].status = "failed") => MetricsRows(r) = {}

(***************************************************************************)
(* Properties of one stage run (SpecStage)                                 *)
(***************************************************************************)
\* the sleeps of an invocation that failed twice: 0.6 s, then 1.2 s
Backoffs == <<600, 1200>>

\* attempts made so far by the stage run, over all its invocations
RECURSIVE AttemptsOf(_)
AttemptsOf(done) == IF done = <<>> THEN 0 ELSE done[1].attempts + AttemptsOf(Tail(done))

AttemptsMade == AttemptsOf(call.done) + (IF call.pc \in {"invoke", "sleep"} THEN call.attempt ELSE 0)

\* C11: one retried invocation makes at most 3 attempts; it ends with the
\* first attempt that returns (every attempt before it failed and was
\* followed by one sleep); the sleeps are 0.6 s after the first failure and
\* 1.2 s after the second; after the third failure the error is raised to
\* the caller with no third sleep and no fallback output.
C11_RetryPolicy ==
    call.pc # "none"
    => /\ call.attempt <= max_attempts
       /\ call.pc \in {"invoke", "sleep"} => call.sleeps = SubSeq(Backoffs, 1, call.attempt - 1)
       /\ \A i \in DOMAIN call.done :
             LET d == call.done[i] IN
             /\ d.attempts \in 1..3
             /\ d.sleeps = SubSeq(Backoffs, 1, d.attempts - 1)
             /\ d.ended = "returned" => d.text \in RawTexts
             /\ d.ended = "raised"
                => /\ d.attempts = 3 /\ i = Len(call.done)
                   /\ call.pc = "raised" /\ call.exc = "capability_error"
                   /\ call.result = "none"

\* the first invocation returned on its second attempt, and the repair
\* invocation failed three times and raised
C11_Witness ==
    /\ call.pc = "raised" /\ Len(call.done) = 2
    /\ call.done[1].ended = "returned" /\ call.done[1].attempts = 2
    /\ call.done[1].sleeps = <<600>>
    /\ call.done[2].ended = "raised" /\ call.done[2].sleeps = <<600, 1200>>

\* C12: with a capability configured, the repair round-trip is issued exactly
\* when no JSON object can be extracted from the first response, and at most
\* once: a stage run makes at most two retried invocations and at most 6
\* attempts, and none after a first response that holds a JSON object.
C12_RepairAtMostOnce ==
    (call.pc # "none" /\ useBedrock)
    => /\ call.invocation <= 2 /\ Len(call.done) <= 2
       /\ AttemptsMade <= 6
       /\ call.invocation = 2 => Len(call.done) >= 1
       /\ (Len(call.done) >= 1 /\ call.done[1].ended = "returned")
          => (call.invocation = 2 <=> _extract_json(call.done[1].text) = "None")

\* a stage run that used all 6 attempts: nothing extractable came back on the
\* third attempt, and the repair answered on its third attempt
C12_Witness ==
    /\ call.pc = "returned" /\ Len(call.done) = 2
    /\ call.done[1].attempts = 3 /\ call.done[2].attempts = 3
    /\ _extract_json(call.done[1].text) = "None"

\* C13: with a capability configured, a stage run returns the capability's
\* object only if it passes the schema; when no object was obtained or the
\* object fails the schema it returns its local fallback; it raises only
\* when the retries of an invocation are exhausted.
C13_OnlyExhaustionRaises ==
    (call.pc # "none" /\ useBedrock)
    => /\ call.result = "capability" => call.parsed = "conforming"
       /\ (call.pc = "returned" /\ call.parsed # "conforming") => call.result = "fallback"
       /\ call.pc = "raised" => call.exc = "capability_error"

(***************************************************************************)
(* Properties of the orchestrator, continued (Spec)                        *)
(***************************************************************************)
StageRaised(e) ==
    e.kind = "stage" /\ e.tag \in {"ingest_raised", "genomics_raised", "epi_osint_raised", "meta_raised"}

\* C14: with no scoring capability configured, every stage of a run over valid
\* cases returns its local fallback, which its output schema accepts: no
\* stage ever raises.
C14_FallbacksPassSchema ==
    ~useBedrock
    => \A r \in RunIds : \A p \in Positions(r) : ~StageRaised(log[r][p])

(***************************************************************************)
(* Properties of the fusion-state update (SpecFusion)                      *)
(***************************************************************************)
WeightSum(fs) == fs.w_genomics + fs.w_epi + fs.w_geo

\* the last update was called for a false positive / for a missed severe
\* outbreak, as the guardrail saw the case
FalsePositive == fusion.eligible /\ ~fusion.input.true_outbreak

MissedSevere ==
    ~fusion.eligible /\ fusion.input.true_outbreak /\ fusion.input.true_severity >= 7000

\* C15: after any update from a valid FusionState, whatever the component
\* scores and the ground truth, the three weights sum to 1 within 1e-6
\* (10 units of 1e-7).
C15_WeightsSumToOne ==
    fusion.n >= 1 => Abs(WeightSum(fusion.state) - Unit) <= 10

\* an update was applied to a valid state whose weights summed to 2
C15_Witness ==
    /\ fusion.n >= 1
    /\ WeightSum(fusion.prev) = 2 * Unit
    /\ Abs(WeightSum(fusion.state) - Unit) <= 10

\* C16: in every FusionState reached by updates from the default state, each
\* of the three weights lies in [0.05, 0.9].
C16_WeightsWithinBounds ==
    (fusion.n >= 0 /\ fusion.origin = default_fusion_state)
    => \A w \in {fusion.state.w_genomics, fusion.state.w_epi, fusion.state.w_geo} :
          w >= Unit \div 20 /\ w <= 9 * (Unit \div 10)

\* C17: after any sequence of updates the decision threshold lies in
\* [0.4, 0.85], and one update changes it by at most 0.01.
C17_ThresholdBounded ==
    fusion.n >= 0
    => /\ fusion.state.threshold >= 400 /\ fusion.state.threshold <= 850
       /\ Abs(fusion.state.threshold - fusion.prev.threshold) <= 10

\* a false positive at threshold 0.85 left the threshold at 0.85, and a
\* missed severe outbreak at 0.4 left it at 0.4
C17_Witness ==
    /\ fusion.n >= 1
    /\ \/ /\ fusion.prev.threshold = 850 /\ fusion.state.threshold = 850
          /\ FalsePositive /\ fusion.input.severity >= 8500
       \/ /\ fusion.prev.threshold = 400 /\ fusion.state.threshold = 400
          /\ MissedSevere /\ fusion.input.severity < 4000

\* C18: after a case the guardrail marked eligible and whose ground truth is
\* negative, the threshold is the previous threshold plus 0.01, capped at 0.85.
C18_FalsePositiveRaisesThreshold ==
    (fusion.n >= 1 /\ FalsePositive)
    => fusion.state.threshold = Min(850, fusion.prev.threshold + 10)

\* C19: after a case the guardrail marked not eligible and whose ground truth
\* is positive with true_severity >= 7, the threshold is the previous one
\* minus 0.01, floored at 0.4; after a case that is neither such a miss nor a
\* false positive it is unchanged.
C19_MissLowersThreshold ==
    fusion.n >= 1
    => /\ MissedSevere => fusion.state.threshold = Max(400, fusion.prev.threshold - 10)
       /\ (~MissedSevere /\ ~FalsePositive)
          => fusion.state.threshold = fusion.prev.threshold

(***************************************************************************)
(* Properties of retrieval (SpecRetrieve)                                  *)
(***************************************************************************)
GroundTruthKeys ==
    {"ground_truth", "ground_truth_json", "true_outbreak", "true_severity",
     "official_alert_date"}
EmbeddingKeys == {"embedding"}

\* x holds one of the keys, or a vector, at some depth
RECURSIVE Leaks(_, _)
Leaks(x, keys) ==
    \/ x.kind = "vector"
    \/ /\ x.kind = "dict"
       /\ \/ Keys(x) \cap keys # {}
          \/ \E k \in Keys(x) : Leaks(x.items[k], keys)

\* the same for ground truth alone
RECURSIVE HasGroundTruth(_)
HasGroundTruth(x) ==
    /\ x.kind = "dict"
    /\ \/ Keys(x) \cap GroundTruthKeys # {}
       \/ \E k \in Keys(x) : HasGroundTruth(x.items[k])

Retrieved == retriever.pc = "ready" /\ retriever.result # NoResult
ResultLists ==
    <<retriever.result.clickhouse_records, retriever.result.past_outbreak_cases,
      retriever.result.strategy_memory>>

\* C20: no item of clickhouse_records, past_outbreak_cases or strategy_memory
\* in a result of retrieve holds, at top level or at any depth below it, a
\* ground-truth field or an embedding vector, and no payload stored in the
\* past-outbreak index holds ground truth.
C20_NoGroundTruthNoEmbedding ==
    retriever.pc = "ready" =>
        /\ \A i \in DOMAIN retriever.index : ~HasGroundTruth(retriever.index[i].payload)
        /\ Retrieved =>
              \A l \in 1..3 : \A i \in DOMAIN ResultLists[l] :
                  ~Leaks(ResultLists[l][i], GroundTruthKeys \cup EmbeddingKeys)

\* a result with items from all three sources, drawn from rows that carry
\* ground truth and embeddings, next to a built index
C20_Witness ==
    /\ Retrieved
    /\ \A l \in 1..3 : Len(ResultLists[l]) > 0
    /\ Len(retriever.index) = Len(_synthetic_cases)
    /\ \E i \in DOMAIN retriever.cases :
          /\ HasGroundTruth(retriever.cases[i])
          /\ Leaks(retriever.cases[i], EmbeddingKeys)

(***************************************************************************)
(* Properties of the data given to the stages (SpecCase)                   *)
(***************************************************************************)
OutcomeKeys == {"true_outbreak", "true_severity", "official_alert_date"}

\* x holds one of the keys at some depth
RECURSIVE HasKey(_, _)
HasKey(x, keys) ==
    /\ x.kind = "dict"
    /\ \/ Keys(x) \cap keys # {}
       \/ \E k \in Keys(x) : HasKey(x.items[k], keys)

ContextHasKey(rag_context, keys) ==
    /\ rag_context # NoResult
    /\ \/ HasKey(rag_context.query_case, keys)
       \/ \E i \in DOMAIN rag_context.clickhouse_records :
             HasKey(rag_context.clickhouse_records[i], keys)
       \/ \E i \in DOMAIN rag_context.past_outbreak_cases :
             HasKey(rag_context.past_outbreak_cases[i], keys)
       \/ \E i \in DOMAIN rag_context.strategy_memory :
             HasKey(rag_context.strategy_memory[i], keys)

SeesOutcome(in) ==
    \/ HasKey(in.payload, OutcomeKeys)
    \/ ContextHasKey(in.rag_context, OutcomeKeys)
    \/ \E i \in DOMAIN in.strategy_notes : HasKey(in.strategy_notes[i], OutcomeKeys)

\* C21: nothing a stage is run on (payload, retrieval context, strategy
\* notes) holds true_outbreak, true_severity or official_alert_date of the
\* case being scored.
C21_StagesNeverSeeOutcome ==
    scoring.pc # "none" =>
        \A i \in DOMAIN scoring.seen : ~SeesOutcome(scoring.seen[i])

ContextBuilt == scoring.pc \in {"branches", "meta", "done"}

\* the date an item of clickhouse_records or past_outbreak_cases bears
RecordDate(item) == Get(GetDict(GetDict(item, "payload"), "summary"), "date").v
PastCaseDate(item) == Get(GetDict(item, "payload"), "date").v

\* C22: in the retrieval context of a case dated D no item of
\* clickhouse_records or past_outbreak_cases bears a date after D, and the
\* stored items of other cases dated exactly D are returned.
C22_NoItemAfterQueryDate ==
    ContextBuilt =>
        LET D == CaseDate(scoring.case_id)
            context == scoring.rag_context
        IN /\ \A i \in DOMAIN context.clickhouse_records :
                 RecordDate(context.clickhouse_records[i]) <= D
           /\ \A i \in DOMAIN context.past_outbreak_cases :
                 PastCaseDate(context.past_outbreak_cases[i]) <= D
           /\ \A i \in DOMAIN scoring.index :
                 ( /\ scoring.index[i].item_id # scoring.case_id
                   /\ Get(scoring.index[i].payload, "date").v = D )
                 => \E j \in DOMAIN context.past_outbreak_cases :
                       Get(context.past_outbreak_cases[j], "item_id").v
                           = scoring.index[i].item_id

\* C23: no list of the retrieval context of a case holds a record of that
\* same case, also when an earlier run has persisted the case and its
\* strategy row.
C23_NoSelfMatch ==
    ContextBuilt =>
        LET context == scoring.rag_context
        IN /\ \A i \in DOMAIN context.clickhouse_records :
                 Get(context.clickhouse_records[i], "item_id").v # scoring.case_id
           /\ \A i \in DOMAIN context.past_outbreak_cases :
                 Get(context.past_outbreak_cases[i], "item_id").v # scoring.case_id
           /\ \A i \in DOMAIN context.strategy_memory :
                 Get(GetDict(context.strategy_memory[i], "payload"), "case_id").v
                     # scoring.case_id

(***************************************************************************)
(* Properties of reranking (SpecRerank)                                    *)
(***************************************************************************)
\* a ranks at least as high as b: similarity first, then payload size
RanksGE(a, b) ==
    LET sa == Get(a, "similarity").v
        sb == Get(b, "similarity").v
        la == StrLen(Get(a, "payload"))
        lb == StrLen(Get(b, "payload"))
    IN sa > sb \/ (sa = sb /\ la >= lb)

\* out is the top k of items in the local order: k of the candidates, each
\* once, in descending rank, and no candidate left out ranks above one kept
IsLocalTop(out, items, k) ==
    /\ Len(out) = Min(k, Len(items))
    /\ \E f \in [DOMAIN out -> DOMAIN items] :
          /\ \A i, j \in DOMAIN out : i # j => f[i] # f[j]
          /\ \A i \in DOMAIN out : out[i] = items[f[i]]
          /\ \A p \in DOMAIN items \ {f[i] : i \in DOMAIN out} :
                \A i \in DOMAIN out : RanksGE(out[i], items[p])
    /\ \A i, j \in DOMAIN out : i < j => RanksGE(out[i], out[j])

RemoteFailed == reranking.remote \in {"raises", "out_of_range"}

UnitNorm(vector) ==
    LET squares == SumSquares(vector, 1, Len(vector))
    IN squares >= 99000000 /\ squares <= 101000000

\* C25: on the local path embed_text returns the same vector for the same
\* text on every call, and for every text, also one without any token, the
\* vector has embedding_dim components and unit L2 norm.
C25_EmbeddingStableUnitNorm ==
    embedding.pc # "none" =>
        /\ \A i, j \in DOMAIN embedding.calls :
              embedding.calls[i].vector = embedding.calls[j].vector
        /\ \A i \in DOMAIN embedding.calls :
              /\ Len(embedding.calls[i].vector) = embedding_dim
              /\ UnitNorm(embedding.calls[i].vector)

(***************************************************************************)
(* Properties of dispatch (SpecDispatch)                                   *)
(***************************************************************************)
\* C26: dispatch_if_approved called with a status other than approved calls
\* neither the voice nor the email channel and returns dispatched = false.
C26_NoDispatchWithoutApproval ==
    (dispatching.pc = "returned" /\ dispatching.approval_status # "approved") =>
        /\ dispatching.voice_calls = 0
        /\ dispatching.email_calls = 0
        /\ ~dispatching.raised
        /\ "dispatched" \in dispatching.result.keys
        /\ ~dispatching.result.dispatched

\* a call with status pending has returned, against channels that would
\* have answered
C26_Witness ==
    /\ dispatching.pc = "returned"
    /\ dispatching.approval_status = "pending"
    /\ dispatching.voice = "ok" /\ dispatching.email = "ok"
    /\ dispatching.result.reason = "approval_required"

\* C27: for an approved case whose voice channel raises, dispatch_if_approved
\* does not raise, calls the email channel exactly once, and returns
\* dispatched = false, partial = true and an errors entry for voice.
C27_ChannelFailureCaptured ==
    ( /\ dispatching.pc = "returned"
      /\ dispatching.approval_status = "approved"
      /\ dispatching.voice = "raises" ) =>
        /\ ~dispatching.raised
        /\ dispatching.email_calls = 1
        /\ ~dispatching.result.dispatched
        /\ dispatching.result.partial
        /\ "voice" \in dispatching.result.errors

(***************************************************************************)
(* Properties of the review desk (SpecDesk)                                *)
(***************************************************************************)
\* the decision rows of a case, those of one run when a run is named
DecisionsOf(case_id, run_id) ==
    LET Mine(row) == row.case_id = case_id /\ (run_id = NoRunId \/ row.run_id = run_id)
    IN  SelectSeq(desk.tables.decisions, Mine)

NothingDone ==
    /\ desk'.tables = desk.tables
    /\ desk'.last.voice_calls = 0
    /\ desk'.last.email_calls = 0

\* C28: an approval submission with decision approve for a case whose
\* decision is not eligible is answered 400, and a submission for a case
\* with no decision is answered 404; either way no table changes (no approval
\* row, no audit event) and no dispatch channel is called.
C28_RejectedApprovalChangesNothing ==
    [][ desk'.last.op = "apply_approval" =>
          LET mine == DecisionsOf(desk'.last.case_id, desk'.last.run_id)
          IN  /\ Len(mine) = 0 => (desk'.last.code = 404 /\ NothingDone)
              /\ ( /\ Len(mine) > 0
                   /\ mine[Len(mine)].eligible_for_review = 0
                   /\ desk'.last.decision = "approve" )
                    => (desk'.last.code = 400 /\ NothingDone) ]_vars

\* an approve submission has been answered 400 for a case that has a
\* decision and its guardrail approval row
C28_Witness ==
    /\ desk.last.op = "apply_approval"
    /\ desk.last.decision = "approve"
    /\ desk.last.code = 400
    /\ \E i \in 1..Len(desk.tables.approvals) :
          /\ desk.tables.approvals[i].case_id = desk.last.case_id
          /\ desk.tables.approvals[i].status = "not_required"

\* the status of the newest approval row of a case in a run
CurrentStatus(approvals, case_id, run_id) ==
    LET Mine(row) == row.case_id = case_id /\ row.run_id = run_id
        mine == SelectSeq(approvals, Mine)
    IN  IF Len(mine) = 0 THEN "none" ELSE mine[Len(mine)].status

\* C29: whenever a request makes a dispatch channel be called for a case,
\* that case's current approval status is approved.
C29_ChannelsOnlyWhenApproved ==
    [][ desk'.last.voice_calls + desk'.last.email_calls > 0 =>
          CurrentStatus(desk'.tables.approvals, desk'.last.case_id,
                        desk'.last.selected_run_id) = "approved" ]_vars

AllOfRun(rows, case_id, run_id) ==
    \A i \in 1..Len(rows) : rows[i].case_id = case_id /\ rows[i].run_id = run_id

AddedRows(s, t) == SubSeq(t, Len(s) + 1, Len(t))

PersistedStatus(evs) ==
    LET rows == SelectSeq(evs, LAMBDA e : e.kind = "runs")
    IN  IF Len(rows) = 0 THEN "none" ELSE rows[Len(rows)].tag

\* C31: close cancels every run task that has not finished, and a cancelled
\* run is never marked completed or failed: its status stays running in
\* memory and in the runs table, and nothing more is written for it.
C31_CancelledStaysRunning ==
    [][ \A r \in RunIds :
          /\ (task'[r].exc = "cancelled" /\ task[r].exc # "cancelled") =>
                \A q \in RunIds : task'[q].pc \in {"none", "done", "crashed", "cancelled"}
          /\ task'[r].exc = "cancelled" =>
                /\ runStatus'[r].status = "running"
                /\ PersistedStatus(log'[r]) = "running"
          /\ task[r].exc = "cancelled" =>
                /\ runStatus'[r] = runStatus[r]
                /\ log'[r] = log[r] ]_vars

\* a run was cancelled while it awaited the children of gather, the
\* genomics child waiting for the capability, after the case row was written
C31_Witness ==
    \E r \in RunIds :
        /\ task[r].pc = "cancelled"
        /\ task[r].genomics = "cancelled"
        /\ Has(r, "cases", task[r].idx)
        /\ runStatus[r].status = "running"

(***************************************************************************)
(* Properties of two runs in flight (SpecPair)                             *)
(***************************************************************************)
\* the step is one of run r and leaves the other runs as they are
StepOf(r) ==
    /\ task'[r] # task[r]
    /\ \A q \in PairRuns \ {r} :
          task'[q] = task[q] /\ runStatus'[q] = runStatus[q] /\ log'[q] = log[q]

\* the strategy_memory row run r appended in this step, if it appended one
WroteOwnUpdate(r) ==
    /\ Len(log'[r]) > Len(log[r])
    /\ \E i \in (Len(log[r]) + 1)..Len(log'[r]) :
          /\ log'[r][i].kind = "strategy_memory"
          /\ log'[r][i].data =
                FusionTuple(task'[r].fusion_state) \o <<task'[r].strategy_hints[1]>>

FirstFive(s) == SubSeq(s, 1, Min(5, Len(s)))

\* the stages called so far in the case being worked on
CalledAt(pc) ==
    IF pc = "gather" THEN {"ingest"}
    ELSE IF pc = "meta" THEN {"ingest", "genomics", "epi_osint"}
    ELSE IF pc = "tail" THEN Stages
    ELSE {}

\* the notes of the run's cases before case i, newest first, then the notes
\* that were persisted when the run started, newest first
NotesBefore(i) ==
    [k \in 1..(i - 1) |-> notebook.own[i - k]]
    \o [k \in 1..(Len(notebook.stored) - Len(notebook.own)) |->
          notebook.stored[Len(notebook.own) + k].note]

IsScenario == ingesting.case.reliability_hint = 70 /\ ingesting.case.n_source_types = 2

InRanges(out) ==
    /\ out.score >= 0 /\ out.score <= 10000
    /\ out.confidence >= 0 /\ out.confidence <= 1000
    /\ out.credibility_score >= 0 /\ out.credibility_score <= 1000

Reproducible ==
    \A i, j \in 1..Len(ingesting.outputs) : ingesting.outputs[i] = ingesting.outputs[j]

\* C34 as stated: on the scenario input the fallback yields credibility
\* 0.67 to two decimals, score and confidence within range, the same on
\* every call.
C34_ScenarioCredibilityIs067 ==
    ingesting.pc = "called" =>
        /\ Reproducible
        /\ \A i \in 1..Len(ingesting.outputs) :
              /\ InRanges(ingesting.outputs[i])
              /\ IsScenario =>
                    /\ ingesting.outputs[i].credibility_score >= 665
                    /\ ingesting.outputs[i].credibility_score <= 675

\* C34 amended: on the scenario input the credibility is 0.51 plus 0.04 per
\* news snippet up to five, so 0.67 exactly when the payload carries four
\* snippets; score (4.883) and confidence lie within range for every payload
\* and repeated calls agree.
C34_ScenarioCredibilityByNews ==
    ingesting.pc = "called" =>
        /\ Reproducible
        /\ \A i \in 1..Len(ingesting.outputs) :
              /\ InRanges(ingesting.outputs[i])
              /\ IsScenario =>
                    /\ ingesting.outputs[i].credibility_score
                          = 510 + 40 * Min(ingesting.case.n_news_snippets, 5)
                    /\ ingesting.outputs[i].score = 4883
                    /\ ( /\ ingesting.outputs[i].credibility_score >= 665
                         /\ ingesting.outputs[i].credibility_score <= 675 )
                          <=> ingesting.case.n_news_snippets = 4

\* the fallback was called twice on the scenario with four news snippets and
\* returned credibility 0.67 both times
C34_Witness ==
    /\ IsScenario
    /\ ingesting.case.n_news_snippets = 4
    /\ Len(ingesting.outputs) = 2
    /\ ingesting.outputs[2].credibility_score = 670

(***************************************************************************)
(* C35: past_outbreak_cases holds the top_k most similar items of the      *)
(* index that are neither the querying case nor dated after it: as many    *)
(* as top_k when that many are eligible, for an index of any size.         *)
(***************************************************************************)
ScanQuery ==
    embed_text(case_to_embedding_text(NormalizedCase(ScanCase(scanning.case_id,
                                                             scanning.pattern))))

\* every eligible item of the whole index, most similar first
EligibleRanked ==
    _filter_past_outbreak_hits(scanning.case_id,
                               _coerce_date(Get(ScanCase(scanning.case_id, scanning.pattern),
                                                "date")),
                               search(scanning.index, ScanQuery, Len(scanning.index)),
                               Len(scanning.index))

SimilaritiesOf(items) == [i \in 1..Len(items) |-> Get(items[i], "similarity").v]

C35_TopKOfEligible ==
    scanning.pc = "retrieved" =>
        SimilaritiesOf(scanning.past_outbreak_cases)
            = SimilaritiesOf(Take(EligibleRanked, scanning.top_k))

Appended(status, dispatch) ==
    /\ Len(desk'.tables.approvals) = Len(desk.tables.approvals) + 1
    /\ SubSeq(desk'.tables.approvals, 1, Len(desk.tables.approvals)) = desk.tables.approvals
    /\ LET row == desk'.tables.approvals[Len(desk'.tables.approvals)]
       IN  /\ row.case_id = desk'.last.case_id
           /\ row.run_id = desk'.last.selected_run_id
           /\ row.status = status
           /\ row.dispatch = dispatch
    /\ desk'.tables.audit_logs =
          Append(desk.tables.audit_logs,
                 AuditRow(desk'.last.selected_run_id, desk'.last.case_id, "approval_updated"))

C37_DispatchFailureRecorded ==
    [][ desk'.last.op = "apply_approval" =>
          LET case_id == desk'.last.case_id
              run_id == desk'.last.run_id
              decision == desk'.last.decision
              mine == DecisionsOf(case_id, run_id)
          IN  Len(mine) > 0 =>
                /\ (decision = "approve" /\ mine[Len(mine)].eligible_for_review # 0)
                      => \A voice \in ChannelOutcomes, email \in ChannelOutcomes :
                            ( /\ "raises" \in {voice, email}
                              /\ ApplyApproval(case_id, run_id, decision, voice, email) )
                               => /\ desk'.last.code = 200
                                  /\ Appended("approved", "dispatch_error")
                /\ decision \in {"reject", "request_more_evidence"}
                      => /\ desk'.last.code = 200
                         /\ desk'.last.voice_calls = 0
                         /\ desk'.last.email_calls = 0
                         /\ Appended(_decision_to_status(decision), "not_approved") ]_vars

\* an approve submission whose dispatch raised at the first channel has been
\* answered and its row stored
C37_Witness ==
    /\ desk.last.op = "apply_approval"
    /\ desk.last.decision = "approve"
    /\ desk.last.code = 200
    /\ desk.last.voice_calls = 1
    /\ desk.last.email_calls = 0
    /\ Len(desk.tables.approvals) > 0
    /\ desk.tables.approvals[Len(desk.tables.approvals)].status = "approved"
    /\ desk.tables.approvals[Len(desk.tables.approvals)].dispatch = "dispatch_error"

(***************************************************************************)
(* C40: once a run's status has been written as failed, no stage of that   *)
(* run is still inside a scoring-capability invocation: the sibling child  *)
(* of a failed join (or its retries) neither goes on nor ends later.       *)
(***************************************************************************)
C40_NothingRunsAfterFailed ==
    \A r \in RunIds :
        runStatus[r].status = "failed" =>
            \A b \in Branches : task[r][b] # "running"

(***************************************************************************)
(* C38: a run in which no insert, query or stage raised and which was not  *)
(* cancelled has, once its task has ended, gone through each of its n      *)
(* selected cases and reached status completed with processed = total = n. *)
(***************************************************************************)
\* the case iterations the run began
IterationsOf(r) ==
    Cardinality({i \in 1..Len(log[r]) : log[r][i].tag = "case_processing_started"})

C38_RunEndsCompleted ==
    \A r \in RunIds :
        ( /\ task[r].pc \in {"done", "crashed"}
          /\ task[r].exc \notin {"persistence_error", "capability_error",
                                 "validation_error", "cancelled"} )
            => /\ runStatus[r].status = "completed"
               /\ runStatus[r].processed = task[r].total
               /\ runStatus[r].total = task[r].total
               /\ task[r].total = SelectedLen(task[r].num_cases, corpusLen)
               /\ IterationsOf(r) = task[r].total

(***************************************************************************)
(* C36: every case whose iteration went through with no insert, query or   *)
(* stage raising is counted in processed, and for every counted case the   *)
(* log holds exactly one case row, four agent-output rows (one per stage), *)
(* one decision, one approval and one strategy-memory row, in that order   *)
(* and before the progress event that counts it.                           *)
(***************************************************************************)
RecordKinds == {"cases", "agent_outputs", "decisions", "approvals", "strategy_memory"}

\* the kinds of the rows written for case k of run r, in the order written,
\* up to the progress event that counts the case
RecordsBeforeCount(r, k) ==
    LET Counts(ev) == ev.kind = "mem" /\ ev.tag = "running" /\ ev.data[1] = k
        counted == {i \in 1..Len(log[r]) : Counts(log[r][i])}
        upto == IF counted = {} THEN Len(log[r])
                ELSE CHOOSE i \in counted : \A j \in counted : i <= j
        Mine(ev) == ev.kind \in RecordKinds /\ ev.case = k
        rows == SelectSeq(SubSeq(log[r], 1, upto), Mine)
    IN  [i \in 1..Len(rows) |-> rows[i].kind]

FullRecord ==
    << "cases", "agent_outputs", "agent_outputs", "agent_outputs", "agent_outputs",
       "decisions", "approvals", "strategy_memory" >>

\* the meta stage of case k returned its output
WentThrough(r, k) ==
    \E i \in 1..Len(log[r]) :
        log[r][i].kind = "stage" /\ log[r][i].tag = "meta_done" /\ log[r][i].case = k

====
